---- MODULE Spec2Model ----
(***************************************************************************)
(* drawstuff-modern: the per-frame instance batcher with its shadow pass   *)
(* (DrawstuffApp::renderFrame), the simulation loop around it, and the     *)
(* welded icosphere builder.                                               *)
(***************************************************************************)
EXTENDS Integers, Sequences, FiniteSets, TLC

\* ------------------------------------------------------------------ bounds
\* largest number of instanced draw calls made in one draw callback
MaxDraws == 2
\* largest number of meshes registered with dsRegisterIndexedMesh
MaxMeshes == 1
MaxTris == 2
\* largest subdivision factor K the sphere builder is run with
MaxSubdiv == 4
\* largest number of edges the weld table is asked for in one build
MaxWeldEdges == 2

\* --------------------------------------------------------- input domains
\* model transforms handed to the draw calls
Transforms == {"T1", "T2"}
\* colours handed to dsSetColor; "white" is (1,1,1,1)
Colors == {"white", "red"}
\* textures handed to dsSetTexture: DS_NONE, DS_WOOD, DS_CHECKERED
Textures == {0, 1, 2}
\* arguments handed to dsSetSphereQuality / dsSetCapsuleQuality
QualityArgs == {1, 2, 3}
\* any int may be handed to them: 0 and 4 are the neighbours of the built range
AnyQualityArgs == {0, 2, 4}
\* the longest command line: argc <= MaxArgs + 1
MaxArgs == 3
\* how often dsStartGraphics is called
MaxStarts == 2
\* the words of a command line: the flags runSimulation knows and two paths
ArgWords == {"-noshadow", "-pause", "-texturepath", "P", "Q"}
RECURSIVE SeqsUpTo(_, _)
SeqsUpTo(S, n) ==
    IF n = 0 THEN {<<>>}
    ELSE LET shorter == SeqsUpTo(S, n - 1)
         IN shorter \cup {Append(q, w) : q \in {x \in shorter : Len(x) = n - 1}, w \in S}
\* the command lines handed to dsSimulationLoop; argv[0] is the program name
Argvs == {<<"prog">> \o a : a \in SeqsUpTo(ArgWords, MaxArgs)}
\* the command lines without -pause and -texturepath
PlainArgvs == {<<"prog">>, <<"prog", "-noshadow">>}
\* dsFunctions::path_to_textures as the caller filled it in
FnPath == "fn"
\* the qualities createPrimitiveMeshes builds
BuiltQualities == {1, 2, 3}
\* DrawstuffApp::cylinder_quality, which no setter changes
cylinder_quality == 3

VARIABLES
    current_state,              \* SimulationState
    pc,                         \* where the program is
    use_shadows,
    sphere_quality,
    capsule_quality,
    current_color,
    texture_id,                 \* the current texture; 0 is DS_NONE
    sphereInstances_,
    boxInstances_,
    cylinderInstances_,
    capsuleCapTopInstances_,
    capsuleCapBottomInstances_,
    capsuleCylinderInstances_,
    meshRegistry_,              \* number of registered meshes
    calls,                      \* the instanced draw calls of this frame, in call order
    uploads,                    \* what this frame's flush uploaded, per list
    submissions,                \* the instanced submissions of this frame's flush, in order
    immediateDraw,              \* the immediate draw the last step issued, if any
    \* ---- the icosphere builder (initSphereMeshForQuality)
    K,                          \* subdivision factor, quality + 1
    fi,                         \* face being built, 0 .. 20
    gi, gj,                     \* lattice point being resolved
    grid,                       \* lattice indices of the face, by <<i, j>>
    pos,                        \* the positions made so far; index n is pos[n + 1]
    edgePoints,                 \* EdgePointTable: <<lo, hi>> -> chain of K + 1 indices
    faceInterior,
    indices,                    \* the triangle index list
    bpc,                        \* where the builder is
    lastReq,                    \* the last edge chain request and what it returned
    firstChain,                 \* the chain each edge got on its first request
    \* ---- the capsule builder (initUnitCapsulePartsForQuality)
    quality_,                   \* the quality it was entered with
    cpc,                        \* where the builder is
    cf, cy, cx,                 \* cube face and cell of the cap being built
    outVerts,                   \* the welded vertices of the cap being built
    welded,                     \* VKey -> index into outVerts
    outIndices,                 \* the index list of the cap being built
    cylVerts, cylIndices,       \* the band
    capTopVerts, capTopIndices,
    capBottomVerts, capBottomIndices,
    \* ---- createPrimitiveMeshes
    mpc,                        \* the builder it is at: [stage, q]
    meshes,                     \* the meshes built so far: <<kind, quality>> -> mesh
    \* ---- registered meshes (buildCreasedVertexPNFromVerticesAndIndices)
    request,                    \* the arguments of the last build
    meshPN,                     \* the MeshPN the last build returned
    handles,                    \* the ids of the handles dsRegisterIndexedMesh returned
    \* ---- the shadow passes
    shadowLightDir_,            \* the light direction
    shadowProject_,             \* the projection onto z = 0; <<>> before it is set
    shadowVertex,               \* the last vertex a shadow pass has transformed
    \* ---- the platform loop (platformSimulationLoop, handleEvent)
    pausemode,                  \* 1 if in pause mode
    singlestep,                 \* 1 if the single step key was pressed
    pause,                      \* the argument of the step callback of this frame
    lastCtrl,                   \* since the previous rendered frame: the last Ctrl-O /
                                \* Ctrl-P processed, and whether a Ctrl-O after the
                                \* last Ctrl-P found pause mode on
    prefix,                     \* the path startGraphics loaded the textures from
    builds,                     \* how many times createPrimitiveMeshes has run
    startCalls,                 \* invocations of the start callback
    stepCalls,                  \* invocations of the step callback in this frame
    stopCalls,                  \* invocations of the stop callback
    \* ---- one call of clipTriToHemisphere
    clipArgs,                   \* its arguments: aL, bL, cL, top
    outPoly                     \* the polygon it returned; <<"none">> before

lists == <<sphereInstances_, boxInstances_, cylinderInstances_,
           capsuleCapTopInstances_, capsuleCapBottomInstances_,
           capsuleCylinderInstances_>>
settings == <<use_shadows, sphere_quality, capsule_quality, current_color, texture_id>>
observed == <<calls, uploads, submissions>>
app == <<current_state, pc, settings, lists, meshRegistry_, observed, immediateDraw>>
sphere == <<K, fi, gi, gj, grid, pos, edgePoints, faceInterior, indices, bpc,
            lastReq, firstChain>>
capsule == <<quality_, cpc, cf, cy, cx, outVerts, welded, outIndices,
             cylVerts, cylIndices, capTopVerts, capTopIndices,
             capBottomVerts, capBottomIndices>>
driver == <<mpc, meshes>>
trimesh == <<request, meshPN, handles>>
shadow == <<shadowLightDir_, shadowProject_, shadowVertex>>
platform == <<pausemode, singlestep, pause, lastCtrl, prefix, builds,
              startCalls, stepCalls, stopCalls>>
clip == <<clipArgs, outPoly>>
extra == <<trimesh, shadow, platform, clip>>
geom == <<capsule, driver, extra>>
mesh == <<sphere, geom>>
vars == <<app, mesh>>

Kinds == {"sphere", "box", "cylinder", "capsuleCapTop", "capsuleCapBottom",
          "capsuleCylinder"}
NoDraw == [prim |-> "none", st |-> "none"]
NoUploads == [k \in Kinds |-> <<>>]

\* the places where code of the user runs and may call the API
UserCtx == {"main_before", "start_cb", "command_cb", "step_cb", "poststep_cb",
            "stop_cb", "main_after"}

\* ------------------------------------------------------------ helpers
isInsideSimulationLoop ==
    current_state = "RUNNING" \/ current_state = "DRAWING"

\* exit(EXIT_FAILURE) / abort(): the process is gone, nothing else changes
Terminate ==
    /\ pc' = "terminated"
    /\ immediateDraw' = NoDraw
    /\ UNCHANGED <<current_state, settings, lists, meshRegistry_, mesh, observed>>

\* one InstanceBasic: model matrix and colour
InstanceBasic(t, off, c) == [model |-> <<t, off>>, color |-> c]

\* the Instance Batcher's record(): append one record to a list
record(list, inst) == Append(list, inst)

AllEmpty ==
    /\ sphereInstances_ = <<>>
    /\ boxInstances_ = <<>>
    /\ cylinderInstances_ = <<>>
    /\ capsuleCapTopInstances_ = <<>>
    /\ capsuleCapBottomInstances_ = <<>>
    /\ capsuleCylinderInstances_ = <<>>

EmptyFn == [x \in {} |-> 0]

\* no capsule is being built
CapsuleIdle ==
    /\ quality_ = 0
    /\ cpc = "idle"
    /\ cf = 0
    /\ cy = 0
    /\ cx = 0
    /\ outVerts = <<>>
    /\ welded = EmptyFn
    /\ outIndices = <<>>
    /\ cylVerts = <<>>
    /\ cylIndices = <<>>
    /\ capTopVerts = <<>>
    /\ capTopIndices = <<>>
    /\ capBottomVerts = <<>>
    /\ capBottomIndices = <<>>

\* createPrimitiveMeshes is not running
DriverIdle ==
    /\ mpc = [stage |-> "idle", q |-> 0]
    /\ meshes = EmptyFn

NoRequest == [via |-> "none", indices |-> <<>>, creaseAngleDegrees |-> 0]
EmptyMeshPN == [vertices |-> <<>>, indices |-> <<>>]

\* no mesh has been registered or built
TriMeshIdle ==
    /\ request = NoRequest
    /\ meshPN = EmptyMeshPN
    /\ handles = <<>>

NoShadowVertex == [pass |-> "none", model |-> <<>>, aPos |-> <<>>, shadowWorld |-> <<>>]

\* no shadow pass is looked at
ShadowIdle ==
    /\ shadowLightDir_ = <<>>
    /\ shadowProject_ = <<>>
    /\ shadowVertex = NoShadowVertex

NoCtrl == [key |-> "none", paused |-> 0]

\* the platform loop has not run
PlatformIdle ==
    /\ pausemode = 0
    /\ singlestep = 0
    /\ pause = 0
    /\ lastCtrl = NoCtrl
    /\ prefix = ""
    /\ builds = 0
    /\ startCalls = 0
    /\ stepCalls = 0
    /\ stopCalls = 0

NoClipArgs == [aL |-> <<>>, bL |-> <<>>, cL |-> <<>>, top |-> TRUE]
NoPoly == <<"none">>

\* clipTriToHemisphere is not looked at
ClipIdle ==
    /\ clipArgs = NoClipArgs
    /\ outPoly = NoPoly

ExtraIdle == TriMeshIdle /\ ShadowIdle /\ PlatformIdle /\ ClipIdle

GeomIdle == CapsuleIdle /\ DriverIdle /\ ExtraIdle
NoReq == [a |-> 0, b |-> 0, chain |-> <<>>, created |-> 0, fresh |-> FALSE]

\* no mesh is being built
MeshIdle ==
    /\ K = 0
    /\ fi = 0
    /\ gi = 0
    /\ gj = 0
    /\ grid = EmptyFn
    /\ pos = <<>>
    /\ edgePoints = EmptyFn
    /\ faceInterior = <<>>
    /\ indices = <<>>
    /\ bpc = "idle"
    /\ lastReq = NoReq
    /\ firstChain = EmptyFn
    /\ GeomIdle

\* the application before dsSimulationLoop
AppInit ==
    /\ current_state = "NOT_STARTED"
    /\ pc = "main_before"
    /\ use_shadows = TRUE
    /\ sphere_quality = 3
    /\ capsule_quality = 3
    /\ current_color = "white"
    /\ texture_id = 0
    /\ AllEmpty
    /\ meshRegistry_ = 0
    /\ calls = <<>>
    /\ uploads = NoUploads
    /\ submissions = <<>>
    /\ immediateDraw = NoDraw

Init == AppInit /\ MeshIdle

\* ------------------------------------------------- dsSimulationLoop
\* DrawstuffApp::startGraphics, as far as the batcher is concerned: the six
\* instance lists are cleared (and reserved)
startGraphics(path_to_textures) ==
    /\ prefix' = path_to_textures
    /\ builds' = builds + 1
    /\ sphereInstances_' = <<>>
    /\ boxInstances_' = <<>>
    /\ cylinderInstances_' = <<>>
    /\ capsuleCapTopInstances_' = <<>>
    /\ capsuleCapBottomInstances_' = <<>>
    /\ capsuleCylinderInstances_' = <<>>

\* the argument loop of runSimulation from argv[i] on (i as in C, argv[0]
\* is argv[1] here); o holds use_shadows, initial_pause and
\* callbacks_storage_.path_to_textures
RECURSIVE parseArgs(_, _, _)
parseArgs(argv, i, o) ==
    IF ~(i < Len(argv)) THEN o
    ELSE LET a == argv[i + 1]
             o1 == [o EXCEPT !.use_shadows = IF a \in {"-noshadow", "-noshadows"}
                                              THEN FALSE ELSE @,
                             !.initial_pause = IF a = "-pause" THEN 1 ELSE @]
         IN IF a = "-texturepath"
            THEN \* ++i < argc
                 IF i + 1 < Len(argv)
                 THEN \* if (++i < argc) path_to_textures = argv[i]
                      IF i + 2 < Len(argv)
                      THEN parseArgs(argv, i + 3,
                                     [o1 EXCEPT !.path_to_textures = argv[(i + 2) + 1]])
                      ELSE parseArgs(argv, i + 3, o1)
                 ELSE parseArgs(argv, i + 2, o1)
            ELSE parseArgs(argv, i + 1, o1)

\* dsSimulationLoop -> DrawstuffApp::runSimulation -> platformSimulationLoop,
\* up to the start callback
runSimulation(argv) ==
    /\ pc \in {"main_before", "main_after"}
    /\ IF current_state # "NOT_STARTED"
       THEN Terminate
       ELSE LET o == parseArgs(argv, 1, [use_shadows |-> use_shadows,
                                        initial_pause |-> 0,
                                        path_to_textures |-> FnPath])
            IN /\ current_state' = "RUNNING"
               /\ use_shadows' = o.use_shadows
               /\ pausemode' = o.initial_pause
               /\ startGraphics(o.path_to_textures)
               /\ startCalls' = startCalls + 1
               /\ pc' = "start_cb"
               /\ immediateDraw' = NoDraw
               /\ UNCHANGED <<sphere_quality, capsule_quality, current_color, texture_id,
                              meshRegistry_, observed, sphere, capsule, driver, trimesh, clip,
                              shadow, singlestep, pause, lastCtrl, stepCalls, stopCalls>>

\* the start callback returns; the while loop of platformSimulationLoop begins
StartReturn ==
    /\ pc = "start_cb"
    /\ pc' = "loop"
    /\ immediateDraw' = NoDraw
    /\ UNCHANGED <<current_state, settings, lists, meshRegistry_, mesh, observed>>

\* DrawstuffApp::stopSimulation
stopSimulation ==
    IF current_state # "RUNNING"
    THEN Terminate
    ELSE /\ current_state' = "FINISHED"
         /\ immediateDraw' = NoDraw
         /\ UNCHANGED <<pc, settings, lists, meshRegistry_, mesh, observed>>

\* DrawstuffApp::handleEvent for one pending X event
handleEvent(ev) ==
    /\ pc = "loop"
    /\ current_state = "RUNNING"
    /\ CASE ev = "ctrl_s"  -> /\ use_shadows' = ~use_shadows
                              /\ immediateDraw' = NoDraw
                              /\ UNCHANGED <<current_state, pc, sphere_quality,
                                             capsule_quality, current_color, texture_id,
                                             lists, meshRegistry_, mesh, observed>>
         [] ev = "ctrl_x"  -> stopSimulation
         [] ev = "close"   -> /\ current_state' = "FINISHED"
                              /\ immediateDraw' = NoDraw
                              /\ UNCHANGED <<pc, settings, lists, meshRegistry_, mesh, observed>>
         [] ev = "command" -> /\ pc' = "command_cb"
                              /\ immediateDraw' = NoDraw
                              /\ UNCHANGED <<current_state, settings, lists,
                                             meshRegistry_, mesh, observed>>
         [] ev = "ctrl_p"  -> /\ pausemode' = 1 - pausemode
                              /\ singlestep' = 0
                              /\ lastCtrl' = [key |-> ev, paused |-> 0]
                              /\ immediateDraw' = NoDraw
                              /\ UNCHANGED <<current_state, pc, settings, lists,
                                             meshRegistry_, observed, sphere, capsule,
                                             driver, trimesh, clip, shadow, pause, prefix,
                                             builds, startCalls, stepCalls, stopCalls>>
         [] ev = "ctrl_o"  -> /\ singlestep' = (IF pausemode # 0 THEN 1 ELSE singlestep)
                              /\ lastCtrl' = [key |-> ev,
                                              paused |-> IF pausemode # 0 THEN 1
                                                         ELSE lastCtrl.paused]
                              /\ immediateDraw' = NoDraw
                              /\ UNCHANGED <<current_state, pc, settings, lists,
                                             meshRegistry_, observed, sphere, capsule,
                                             driver, trimesh, clip, shadow, pausemode, pause,
                                             prefix, builds, startCalls, stepCalls,
                                             stopCalls>>

CommandReturn ==
    /\ pc = "command_cb"
    /\ pc' = "loop"
    /\ immediateDraw' = NoDraw
    /\ UNCHANGED <<current_state, settings, lists, meshRegistry_, mesh, observed>>

\* the loop condition fails: the stop callback is called
LoopExit ==
    /\ pc = "loop"
    /\ current_state # "RUNNING"
    /\ pc' = "stop_cb"
    /\ stopCalls' = stopCalls + 1
    /\ immediateDraw' = NoDraw
    /\ UNCHANGED <<current_state, settings, lists, meshRegistry_, observed, sphere, capsule,
                   driver, trimesh, clip, shadow, pausemode, singlestep, pause, lastCtrl,
                   prefix, builds, startCalls, stepCalls>>

\* the stop callback returns; stopGraphics; runSimulation returns
StopReturn ==
    /\ pc = "stop_cb"
    /\ current_state' = "FINISHED"
    /\ pc' = "main_after"
    /\ immediateDraw' = NoDraw
    /\ UNCHANGED <<settings, lists, meshRegistry_, mesh, observed>>

\* ------------------------------------------------- renderFrame
\* a frame entry that leaves the texture as it is
userDrawDefaults_keepTexture == [color |-> "white", texture |-> texture_id]

\* the colour and the texture renderFrame sets before the step callback:
\* white (1,1,1,1) and 0 (no texture)
userDrawDefaults == [color |-> "white", texture |-> 0]

\* the pause argument processRenderFrame hands to renderFrame, ignoring
\* the single step key
stepPause_noSingleStep(pm, ss) == pm

\* the pause argument processRenderFrame hands to renderFrame:
\* pausemode && !singlestep
stepPause(pm, ss) == IF pm # 0 /\ ss = 0 THEN 1 ELSE 0

\* a renderFrame that never returns early
renderFrameReturnsEarly_never == FALSE

\* renderFrame returns at once when the state is FINISHED (in the loop the
\* state is RUNNING or FINISHED when processRenderFrame is reached)
renderFrameReturnsEarly == current_state # "RUNNING"

\* processRenderFrame -> DrawstuffApp::renderFrame up to the call of the step
\* (draw) callback
RenderFrameBegin ==
    /\ pc = "loop"
    /\ ~renderFrameReturnsEarly
    /\ current_state' = "DRAWING"
    /\ current_color' = userDrawDefaults.color
    /\ texture_id' = userDrawDefaults.texture
    /\ pc' = "step_cb"
    /\ calls' = <<>>
    /\ uploads' = NoUploads
    /\ submissions' = <<>>
    /\ immediateDraw' = NoDraw
    /\ pause' = stepPause(pausemode, singlestep)
    /\ stepCalls' = stepCalls + 1
    /\ lastCtrl' = NoCtrl
    /\ UNCHANGED <<use_shadows, sphere_quality, capsule_quality, lists, meshRegistry_,
                   sphere, capsule, driver, trimesh, clip, shadow, pausemode, singlestep,
                   prefix, builds, startCalls, stopCalls>>

\* a transfer that loses the first record (a wrong offset into the list)
uploadInstanceBuffer_skipFirst(instances) == Tail(instances)

\* uploadInstanceBuffer: one bulk transfer of the whole list, as it is
uploadInstanceBuffer(instances) == instances

\* the uploads of the flush: only the non-empty lists are uploaded
FlushUploads ==
    [k \in Kinds |->
        CASE k = "sphere" ->
               IF sphereInstances_ # <<>>
               THEN uploadInstanceBuffer(sphereInstances_) ELSE <<>>
          [] k = "box" ->
               IF boxInstances_ # <<>>
               THEN uploadInstanceBuffer(boxInstances_) ELSE <<>>
          [] k = "cylinder" ->
               IF cylinderInstances_ # <<>>
               THEN uploadInstanceBuffer(cylinderInstances_) ELSE <<>>
          [] k = "capsuleCapTop" ->
               IF capsuleCapTopInstances_ # <<>>
               THEN uploadInstanceBuffer(capsuleCapTopInstances_) ELSE <<>>
          [] k = "capsuleCapBottom" ->
               IF capsuleCapBottomInstances_ # <<>>
               THEN uploadInstanceBuffer(capsuleCapBottomInstances_) ELSE <<>>
          [] k = "capsuleCylinder" ->
               IF capsuleCylinderInstances_ # <<>>
               THEN uploadInstanceBuffer(capsuleCylinderInstances_) ELSE <<>>]

\* glDrawElementsInstanced of the mesh (kind, q) with count instances
Submission(pass, kind, q, count) ==
    [pass |-> pass, kind |-> kind, q |-> q, count |-> count]

\* a lit pass that draws every sphere on its own instead of one batch
LitSubmissions_perInstance ==
    [i \in 1 .. Len(sphereInstances_) |->
        Submission("lit", "sphere", sphere_quality, 1)]
    \o (IF boxInstances_ # <<>>
        THEN <<Submission("lit", "box", 0, Len(boxInstances_))>>
        ELSE <<>>)
    \o (IF cylinderInstances_ # <<>>
        THEN <<Submission("lit", "cylinder", cylinder_quality, Len(cylinderInstances_))>>
        ELSE <<>>)
    \o (IF capsuleCapTopInstances_ # <<>>
        THEN <<Submission("lit", "capsuleCapTop", capsule_quality,
                          Len(capsuleCapTopInstances_))>>
        ELSE <<>>)
    \o (IF capsuleCapBottomInstances_ # <<>>
        THEN <<Submission("lit", "capsuleCapBottom", capsule_quality,
                          Len(capsuleCapBottomInstances_))>>
        ELSE <<>>)
    \o (IF capsuleCylinderInstances_ # <<>>
        THEN <<Submission("lit", "capsuleCylinder", capsule_quality,
                          Len(capsuleCylinderInstances_))>>
        ELSE <<>>)

\* the lit pass of the flush, in the order of the code
LitSubmissions ==
    (IF sphereInstances_ # <<>>
     THEN <<Submission("lit", "sphere", sphere_quality, Len(sphereInstances_))>>
     ELSE <<>>)
    \o (IF boxInstances_ # <<>>
        THEN <<Submission("lit", "box", 0, Len(boxInstances_))>>
        ELSE <<>>)
    \o (IF cylinderInstances_ # <<>>
        THEN <<Submission("lit", "cylinder", cylinder_quality, Len(cylinderInstances_))>>
        ELSE <<>>)
    \o (IF capsuleCapTopInstances_ # <<>>
        THEN <<Submission("lit", "capsuleCapTop", capsule_quality,
                          Len(capsuleCapTopInstances_))>>
        ELSE <<>>)
    \o (IF capsuleCapBottomInstances_ # <<>>
        THEN <<Submission("lit", "capsuleCapBottom", capsule_quality,
                          Len(capsuleCapBottomInstances_))>>
        ELSE <<>>)
    \o (IF capsuleCylinderInstances_ # <<>>
        THEN <<Submission("lit", "capsuleCylinder", capsule_quality,
                          Len(capsuleCylinderInstances_))>>
        ELSE <<>>)

\* a shadow pass that is not switched off with the shadows
ShadowSubmissions_always(shadow_sphere_quality, shadow_cylinder_quality) ==
    (IF sphereInstances_ # <<>>
     THEN <<Submission("shadow", "sphere", shadow_sphere_quality,
                       Len(sphereInstances_))>>
     ELSE <<>>)
    \o (IF boxInstances_ # <<>>
        THEN <<Submission("shadow", "box", 0, Len(boxInstances_))>>
        ELSE <<>>)
    \o (IF cylinderInstances_ # <<>>
        THEN <<Submission("shadow", "cylinder", shadow_cylinder_quality,
                          Len(cylinderInstances_))>>
        ELSE <<>>)
    \o (IF capsuleCapTopInstances_ # <<>>
        THEN <<Submission("shadow", "capsuleCapTop", shadow_cylinder_quality,
                          Len(capsuleCapTopInstances_))>>
        ELSE <<>>)
    \o (IF capsuleCapBottomInstances_ # <<>>
        THEN <<Submission("shadow", "capsuleCapBottom", shadow_cylinder_quality,
                          Len(capsuleCapBottomInstances_))>>
        ELSE <<>>)
    \o (IF capsuleCylinderInstances_ # <<>>
        THEN <<Submission("shadow", "capsuleCylinder", shadow_cylinder_quality,
                          Len(capsuleCylinderInstances_))>>
        ELSE <<>>)

\* the shadow pass of the flush, in the order of the code; the two shadow
\* quality indices are declared outside the sources at hand
ShadowSubmissions(shadow_sphere_quality, shadow_cylinder_quality) ==
    IF use_shadows
    THEN (IF sphereInstances_ # <<>>
          THEN <<Submission("shadow", "sphere", shadow_sphere_quality,
                            Len(sphereInstances_))>>
          ELSE <<>>)
         \o (IF boxInstances_ # <<>>
             THEN <<Submission("shadow", "box", 0, Len(boxInstances_))>>
             ELSE <<>>)
         \o (IF cylinderInstances_ # <<>>
             THEN <<Submission("shadow", "cylinder", shadow_cylinder_quality,
                               Len(cylinderInstances_))>>
             ELSE <<>>)
         \o (IF capsuleCapTopInstances_ # <<>>
             THEN <<Submission("shadow", "capsuleCapTop", shadow_cylinder_quality,
                               Len(capsuleCapTopInstances_))>>
             ELSE <<>>)
         \o (IF capsuleCapBottomInstances_ # <<>>
             THEN <<Submission("shadow", "capsuleCapBottom", shadow_cylinder_quality,
                               Len(capsuleCapBottomInstances_))>>
             ELSE <<>>)
         \o (IF capsuleCylinderInstances_ # <<>>
             THEN <<Submission("shadow", "capsuleCylinder", shadow_cylinder_quality,
                               Len(capsuleCylinderInstances_))>>
             ELSE <<>>)
    ELSE <<>>

\* a clear that sits inside the shadow block
ClearInstanceBuffers_inShadowBlock ==
    IF use_shadows
    THEN /\ sphereInstances_' = <<>>
         /\ boxInstances_' = <<>>
         /\ cylinderInstances_' = <<>>
         /\ capsuleCapTopInstances_' = <<>>
         /\ capsuleCapBottomInstances_' = <<>>
         /\ capsuleCylinderInstances_' = <<>>
    ELSE UNCHANGED lists

\* the six clear() calls that end the flush
ClearInstanceBuffers ==
    /\ sphereInstances_' = <<>>
    /\ boxInstances_' = <<>>
    /\ cylinderInstances_' = <<>>
    /\ capsuleCapTopInstances_' = <<>>
    /\ capsuleCapBottomInstances_' = <<>>
    /\ capsuleCylinderInstances_' = <<>>

\* DrawstuffApp::renderFrame after the step callback has returned: uploads,
\* lit pass, shadow pass, clear, state back to RUNNING
RenderFrameFlush ==
    /\ pc = "step_cb"
    /\ uploads' = FlushUploads
    /\ \E shadow_sphere_quality \in BuiltQualities,
          shadow_cylinder_quality \in BuiltQualities :
            submissions' = LitSubmissions
                           \o ShadowSubmissions(shadow_sphere_quality,
                                                shadow_cylinder_quality)
    /\ ClearInstanceBuffers
    /\ current_state' = "RUNNING"
    /\ pc' = "flushed"
    /\ singlestep' = 0
    /\ immediateDraw' = NoDraw
    /\ UNCHANGED <<settings, meshRegistry_, calls, sphere, capsule, driver, trimesh, clip, shadow,
                   pausemode, pause, lastCtrl, prefix, builds, startCalls, stepCalls,
                   stopCalls>>

\* processRenderFrame after renderFrame: the postStep callback is called
PostStepBegin ==
    /\ pc = "flushed"
    /\ pc' = "poststep_cb"
    /\ calls' = <<>>
    /\ uploads' = NoUploads
    /\ submissions' = <<>>
    /\ immediateDraw' = NoDraw
    /\ UNCHANGED <<current_state, settings, lists, meshRegistry_, mesh>>

\* the postStep callback returns; buffers are swapped; back to the loop head
PostStepReturn ==
    /\ pc = "poststep_cb"
    /\ pc' = "loop"
    /\ stepCalls' = 0
    /\ immediateDraw' = NoDraw
    /\ UNCHANGED <<current_state, settings, lists, meshRegistry_, observed, sphere, capsule,
                   driver, trimesh, clip, shadow, pausemode, singlestep, pause, lastCtrl,
                   prefix, builds, startCalls, stopCalls>>

\* ------------------------------------------------- the drawing API
\* An instanced draw call made in a frame: the call is logged and its
\* records are appended.
Call(prim, t, q) == [prim |-> prim, t |-> t, color |-> current_color, q |-> q]

\* dsDrawSphere -> with_app -> DrawstuffApp::drawSphere
drawSphere(t) ==
    /\ pc \in UserCtx
    /\ current_state = "DRAWING" => Len(calls) < MaxDraws
    /\ IF ~isInsideSimulationLoop \/ current_state # "DRAWING"
       THEN Terminate
       ELSE /\ sphereInstances_' =
                   record(sphereInstances_, InstanceBasic(t, "c", current_color))
            /\ calls' = Append(calls, Call("sphere", t, sphere_quality))
            /\ immediateDraw' = NoDraw
            /\ UNCHANGED <<current_state, pc, settings, boxInstances_,
                           cylinderInstances_, capsuleCapTopInstances_,
                           capsuleCapBottomInstances_, capsuleCylinderInstances_,
                           meshRegistry_, mesh, uploads, submissions>>

\* dsDrawBox -> with_app -> DrawstuffApp::drawBox
drawBox(t) ==
    /\ pc \in UserCtx
    /\ current_state = "DRAWING" => Len(calls) < MaxDraws
    /\ IF ~isInsideSimulationLoop \/ current_state # "DRAWING"
       THEN Terminate
       ELSE /\ boxInstances_' =
                   record(boxInstances_, InstanceBasic(t, "c", current_color))
            /\ calls' = Append(calls, Call("box", t, 0))
            /\ immediateDraw' = NoDraw
            /\ UNCHANGED <<current_state, pc, settings, sphereInstances_,
                           cylinderInstances_, capsuleCapTopInstances_,
                           capsuleCapBottomInstances_, capsuleCylinderInstances_,
                           meshRegistry_, mesh, uploads, submissions>>

\* dsDrawCylinder -> with_app -> DrawstuffApp::drawCylinder
drawCylinder(t) ==
    /\ pc \in UserCtx
    /\ current_state = "DRAWING" => Len(calls) < MaxDraws
    /\ IF ~isInsideSimulationLoop \/ current_state # "DRAWING"
       THEN Terminate
       ELSE /\ cylinderInstances_' =
                   record(cylinderInstances_, InstanceBasic(t, "c", current_color))
            /\ calls' = Append(calls, Call("cylinder", t, cylinder_quality))
            /\ immediateDraw' = NoDraw
            /\ UNCHANGED <<current_state, pc, settings, sphereInstances_,
                           boxInstances_, capsuleCapTopInstances_,
                           capsuleCapBottomInstances_, capsuleCylinderInstances_,
                           meshRegistry_, mesh, uploads, submissions>>

\* dsDrawCapsule -> with_app -> DrawstuffApp::drawCapsule: the band at the
\* centre and the two caps at +/- half-length
drawCapsule(t) ==
    /\ pc \in UserCtx
    /\ current_state = "DRAWING" => Len(calls) < MaxDraws
    /\ IF ~isInsideSimulationLoop \/ current_state # "DRAWING"
       THEN Terminate
       ELSE /\ capsuleCylinderInstances_' =
                   record(capsuleCylinderInstances_,
                          InstanceBasic(t, "c", current_color))
            /\ capsuleCapTopInstances_' =
                   record(capsuleCapTopInstances_,
                          InstanceBasic(t, "+z", current_color))
            /\ capsuleCapBottomInstances_' =
                   record(capsuleCapBottomInstances_,
                          InstanceBasic(t, "-z", current_color))
            /\ calls' = Append(calls, Call("capsule", t, capsule_quality))
            /\ immediateDraw' = NoDraw
            /\ UNCHANGED <<current_state, pc, settings, sphereInstances_,
                           boxInstances_, cylinderInstances_,
                           meshRegistry_, mesh, uploads, submissions>>

\* the draw calls that draw at once and check the state themselves:
\* dsDrawTriangle, dsDrawTriangles, dsDrawConvex
CheckedPrims == {"triangle", "triangles", "convex"}
drawChecked(prim) ==
    /\ pc \in UserCtx
    /\ IF ~isInsideSimulationLoop \/ current_state # "DRAWING"
       THEN Terminate
       ELSE /\ immediateDraw' = [prim |-> prim, st |-> current_state]
            /\ UNCHANGED <<current_state, pc, settings, lists, meshRegistry_, mesh,
                           observed>>

\* dsDrawLine -> with_app -> DrawstuffApp::drawLine, which has no check of
\* its own
drawLine ==
    /\ pc \in UserCtx
    /\ IF ~isInsideSimulationLoop
       THEN Terminate
       ELSE /\ immediateDraw' = [prim |-> "line", st |-> current_state]
            /\ UNCHANGED <<current_state, pc, settings, lists, meshRegistry_, mesh,
                           observed>>

\* dsRegisterIndexedMesh -> DrawstuffApp::registerIndexedMesh
registerIndexedMesh ==
    /\ pc \in UserCtx
    /\ meshRegistry_ < MaxMeshes
    /\ meshRegistry_' = meshRegistry_ + 1
    /\ immediateDraw' = NoDraw
    /\ UNCHANGED <<current_state, pc, settings, lists, observed, mesh>>

\* dsDrawRegisteredMesh -> with_app -> DrawstuffApp::drawRegisteredMesh for
\* the handle h of a registered mesh; no check of its own
drawRegisteredMesh(h) ==
    /\ pc \in UserCtx
    /\ h \in 0 .. (meshRegistry_ - 1)
    /\ IF ~isInsideSimulationLoop
       THEN Terminate
       ELSE /\ immediateDraw' = [prim |-> "mesh", st |-> current_state]
            /\ UNCHANGED <<current_state, pc, settings, lists, meshRegistry_, mesh,
                           observed>>

\* ------------------------------------------------- the settings API
\* dsSetSphereQuality -> DrawstuffApp::setSphereQuality
setSphereQuality(n) ==
    /\ pc \in UserCtx
    /\ sphere_quality' = n
    /\ immediateDraw' = NoDraw
    /\ UNCHANGED <<current_state, pc, use_shadows, capsule_quality,
                   current_color, texture_id,
                   lists, meshRegistry_, mesh, observed>>

\* dsSetCapsuleQuality -> DrawstuffApp::setCapsuleQuality
setCapsuleQuality(n) ==
    /\ pc \in UserCtx
    /\ capsule_quality' = n
    /\ immediateDraw' = NoDraw
    /\ UNCHANGED <<current_state, pc, use_shadows, sphere_quality,
                   current_color, texture_id,
                   lists, meshRegistry_, mesh, observed>>

\* dsSetShadows -> with_app -> DrawstuffApp::setUseShadows
dsSetShadows(b) ==
    /\ pc \in UserCtx
    /\ IF ~isInsideSimulationLoop
       THEN Terminate
       ELSE /\ use_shadows' = b
            /\ immediateDraw' = NoDraw
            /\ UNCHANGED <<current_state, pc, sphere_quality, capsule_quality,
                           current_color, texture_id, lists, meshRegistry_, mesh, observed>>

\* dsSetColor -> DrawstuffApp::storeColor
storeColor(c) ==
    /\ pc \in UserCtx
    /\ current_color' = c
    /\ immediateDraw' = NoDraw
    /\ UNCHANGED <<current_state, pc, use_shadows, sphere_quality, capsule_quality,
                   texture_id, lists, meshRegistry_, mesh, observed>>

\* dsSetTexture -> DrawstuffApp::setTexture
setTexture(texnum) ==
    /\ pc \in UserCtx
    /\ texture_id' = texnum
    /\ immediateDraw' = NoDraw
    /\ UNCHANGED <<current_state, pc, use_shadows, sphere_quality, capsule_quality,
                   current_color, lists, meshRegistry_, mesh, observed>>

\* dsStop -> with_app -> DrawstuffApp::stopSimulation
dsStop ==
    /\ pc \in UserCtx
    /\ IF ~isInsideSimulationLoop
       THEN Terminate
       ELSE stopSimulation

\* dsPause -> DrawstuffApp::togglePauseMode
dsPause ==
    /\ pc \in UserCtx
    /\ pausemode' = 1 - pausemode
    /\ immediateDraw' = NoDraw
    /\ UNCHANGED <<current_state, pc, settings, lists, meshRegistry_, observed, sphere,
                   capsule, driver, trimesh, clip, shadow, singlestep, pause, lastCtrl, prefix,
                   builds, startCalls, stepCalls, stopCalls>>

\* dsStartGraphics -> with_app -> DrawstuffApp::startGraphics with the
\* dsFunctions of the caller
dsStartGraphics ==
    /\ pc \in UserCtx
    /\ builds < MaxStarts
    /\ IF ~isInsideSimulationLoop
       THEN Terminate
       ELSE /\ startGraphics(FnPath)
            /\ immediateDraw' = NoDraw
            /\ UNCHANGED <<current_state, pc, settings, meshRegistry_, observed, sphere,
                           capsule, driver, trimesh, clip, shadow, pausemode, singlestep, pause,
                           lastCtrl, startCalls, stepCalls, stopCalls>>

\* ------------------------------------------------- specifications
\* the simulation loop itself
LoopNext ==
    \/ \E argv \in PlainArgvs : runSimulation(argv)
    \/ StartReturn
    \/ \E ev \in {"ctrl_s", "ctrl_x", "close", "command"} : handleEvent(ev)
    \/ CommandReturn
    \/ RenderFrameBegin
    \/ RenderFrameFlush
    \/ PostStepBegin
    \/ PostStepReturn
    \/ LoopExit
    \/ StopReturn

\* the batcher: instanced draw calls with any transform and colour
Next ==
    \/ LoopNext
    \/ \E t \in Transforms : drawSphere(t)
    \/ \E t \in Transforms : drawBox(t)
    \/ \E t \in Transforms : drawCylinder(t)
    \/ \E t \in Transforms : drawCapsule(t)
    \/ \E b \in BOOLEAN : dsSetShadows(b)
    \/ \E c \in Colors : storeColor(c)
    \/ dsStop

Spec == Init /\ [][Next]_vars

\* the batcher under changes of the sphere and capsule quality
NextQuality ==
    \/ LoopNext
    \/ drawSphere("T1")
    \/ drawBox("T1")
    \/ drawCylinder("T1")
    \/ drawCapsule("T1")
    \/ \E n \in QualityArgs : setSphereQuality(n)
    \/ \E n \in QualityArgs : setCapsuleQuality(n)
    \/ \E b \in BOOLEAN : dsSetShadows(b)

SpecQuality == Init /\ [][NextQuality]_vars

\* every draw call of the API, in and out of a frame
NextUsage ==
    \/ LoopNext
    \/ drawSphere("T1")
    \/ drawBox("T1")
    \/ drawCylinder("T1")
    \/ drawCapsule("T1")
    \/ \E prim \in CheckedPrims : drawChecked(prim)
    \/ drawLine
    \/ registerIndexedMesh
    \/ \E h \in 0 .. (MaxMeshes - 1) : drawRegisteredMesh(h)
    \/ dsStop

SpecUsage == Init /\ [][NextUsage]_vars

\* the batcher when the quality setters are given any integer
NextAnyQuality ==
    \/ LoopNext
    \/ drawSphere("T1")
    \/ drawCapsule("T1")
    \/ \E n \in AnyQualityArgs : setSphereQuality(n)
    \/ \E n \in AnyQualityArgs : setCapsuleQuality(n)

SpecAnyQuality == Init /\ [][NextAnyQuality]_vars

\* the platform loop: any command line, the pause keys, and user code that
\* calls dsPause, dsStartGraphics and dsStop
NextPlatform ==
    \/ \E argv \in Argvs : runSimulation(argv)
    \/ StartReturn
    \/ \E ev \in {"ctrl_s", "ctrl_x", "close", "command", "ctrl_p", "ctrl_o"} :
            handleEvent(ev)
    \/ CommandReturn
    \/ RenderFrameBegin
    \/ RenderFrameFlush
    \/ PostStepBegin
    \/ PostStepReturn
    \/ LoopExit
    \/ StopReturn
    \/ dsPause
    \/ dsStartGraphics
    \/ dsStop

SpecPlatform == Init /\ [][NextPlatform]_vars

\* the colour and the texture across frames
NextFrame ==
    \/ LoopNext
    \/ \E c \in Colors : storeColor(c)
    \/ \E texnum \in Textures : setTexture(texnum)

SpecFrame == Init /\ [][NextFrame]_vars

\* ------------------------------------------------- properties of the batcher
\* the draw call and the offset that feed a list
PrimOf(kind) ==
    CASE kind = "sphere" -> "sphere"
      [] kind = "box" -> "box"
      [] kind = "cylinder" -> "cylinder"
      [] OTHER -> "capsule"
OffOf(kind) ==
    CASE kind = "capsuleCapTop" -> "+z"
      [] kind = "capsuleCapBottom" -> "-z"
      [] OTHER -> "c"

\* the calls of this frame that feed the list of a kind, in call order
CallsOf(kind) == SelectSeq(calls, LAMBDA c : c.prim = PrimOf(kind))

\* the records the calls of this frame made for a kind, in call order
Recorded(kind) ==
    [i \in 1 .. Len(CallsOf(kind)) |->
        [model |-> <<CallsOf(kind)[i].t, OffOf(kind)>>,
         color |-> CallsOf(kind)[i].color]]

\* the submissions of a pass for a kind, and their positions
SubsOf(pass, kind) ==
    SelectSeq(submissions, LAMBDA s : s.pass = pass /\ s.kind = kind)
PosOf(pass, kind) ==
    {i \in DOMAIN submissions :
        submissions[i].pass = pass /\ submissions[i].kind = kind}

C2_ListsEmptyBetweenFrames ==
    /\ pc \notin {"step_cb", "terminated"} => AllEmpty
    /\ (pc = "step_cb" /\ calls = <<>>) => AllEmpty

C2_Witness ==
    /\ pc = "flushed"
    /\ ~use_shadows
    /\ Len(calls) = MaxDraws
    /\ submissions # <<>>
    /\ AllEmpty

\* C3: after a flush with shadows enabled every list that was not empty has
\* exactly one shadow submission, with the count of its lit submission and
\* after it, and an empty list has none; with shadows disabled there is no
\* shadow submission at all.
C3_ShadowMirrorsLit ==
    pc = "flushed" =>
        IF use_shadows
        THEN \A k \in Kinds :
                IF uploads[k] # <<>>
                THEN /\ Len(SubsOf("shadow", k)) = 1
                     /\ Len(SubsOf("lit", k)) = 1
                     /\ SubsOf("shadow", k)[1].count = SubsOf("lit", k)[1].count
                     /\ \A i \in PosOf("lit", k), j \in PosOf("shadow", k) : i < j
                ELSE SubsOf("shadow", k) = <<>>
        ELSE \A i \in DOMAIN submissions : submissions[i].pass # "shadow"

C3_Witness ==
    /\ pc = "flushed"
    /\ use_shadows
    /\ uploads["sphere"] # <<>>
    /\ uploads["box"] # <<>>
    /\ uploads["cylinder"] = <<>>
    /\ Len(SubsOf("shadow", "sphere")) = 1

C6_DrawnAtRecordedQuality ==
    pc = "flushed" =>
        \A k \in Kinds :
            \A i \in DOMAIN CallsOf(k) :
                \A j \in PosOf("lit", k) : submissions[j].q = CallsOf(k)[i].q

\* C7: the shadow submission of a list uses the mesh of the same kind and
\* the same quality index as the lit submission of that list.
C7_ShadowUsesLitMesh ==
    pc = "flushed" =>
        \A k \in Kinds :
            \A i \in PosOf("lit", k), j \in PosOf("shadow", k) :
                submissions[i].q = submissions[j].q

\* C4: a primitive draw call made while no frame is being rendered
\* terminates the process, records no instance and issues no draw.
DrawCallStep ==
    \/ \E t \in Transforms : drawSphere(t)
    \/ \E t \in Transforms : drawBox(t)
    \/ \E t \in Transforms : drawCylinder(t)
    \/ \E t \in Transforms : drawCapsule(t)
    \/ \E prim \in CheckedPrims : drawChecked(prim)
    \/ drawLine
    \/ \E h \in 0 .. (MaxMeshes - 1) : drawRegisteredMesh(h)

C4_DrawOutsideFrameTerminates ==
    [][(DrawCallStep /\ current_state # "DRAWING")
          => (pc' = "terminated" /\ immediateDraw' = NoDraw /\ UNCHANGED lists)]_vars

\* ------------------------------------------------- the icosphere builder
Min(a, b) == IF a < b THEN a ELSE b
Max(a, b) == IF a < b THEN b ELSE a

\* the faces of the icosahedron, as vertex index triples
gSphereIcosaFaces ==
    << <<0, 4, 1>>, <<0, 9, 4>>, <<9, 5, 4>>, <<4, 5, 8>>, <<4, 8, 1>>,
       <<8, 10, 1>>, <<8, 3, 10>>, <<5, 3, 8>>, <<5, 2, 3>>, <<2, 7, 3>>,
       <<7, 10, 3>>, <<7, 6, 10>>, <<7, 11, 6>>, <<11, 0, 6>>, <<0, 1, 6>>,
       <<6, 1, 10>>, <<9, 0, 11>>, <<9, 11, 2>>, <<9, 2, 5>>, <<7, 2, 11>> >>

\* the twelve normalised icosahedron vertices, indices 0 .. 11
gSphereIcosaVerts == [i \in 1 .. 12 |-> <<"ico", i - 1>>]

\* the faces whose edges are requested from the weld table on its own: the
\* five faces around vertex 4
WeldFaces == 0 .. 4

\* the qualities the builder is entered with; quality -1 gives K = 0
SphereQualityArgs == (-1) .. (MaxSubdiv - 1)

\* the corners the builder takes for face f: A = face[2], B = face[1], C = face[0]
FaceA(f) == gSphereIcosaFaces[f + 1][3]
FaceB(f) == gSphereIcosaFaces[f + 1][2]
FaceC(f) == gSphereIcosaFaces[f + 1][1]

\* normalize((1 - t/K) * pos[lo] + (t/K) * pos[hi])
EdgePoint(lo, hi, t, K_) == <<"edge", lo, hi, t, K_>>

\* normalize(a * pos[A] + b * pos[B] + c * pos[C]), a, b, c barycentric
InteriorPoint(A, B, C, i, j, K_) == <<"face", A, B, C, i, j, K_>>

\* the variant that keys the table on the pair as given
getOrBuildEdgePoints_keyAsGiven(a, b, K_, pos_, edgePoints_) ==
    LET key == <<a, b>>
    IN  IF key \in DOMAIN edgePoints_
        THEN [chain |-> edgePoints_[key], pos |-> pos_, edgePoints |-> edgePoints_]
        ELSE LET lo == key[1]
                 hi == key[2]
                 idx == [t \in 1 .. (K_ + 1) |->
                            IF t = K_ + 1 THEN hi
                            ELSE IF t = 1 THEN lo
                            ELSE Len(pos_) + (t - 2)]
             IN  [chain |-> idx,
                  pos |-> pos_ \o [t \in 1 .. (K_ - 1) |-> EdgePoint(lo, hi, t, K_)],
                  edgePoints |-> edgePoints_ @@ (key :> idx)]

\* the chain of K + 1 indices of edge {a, b}, stored from the lower to the
\* higher endpoint; the first request makes the K - 1 points in between
getOrBuildEdgePoints(a, b, K_, pos_, edgePoints_) ==
    LET key == <<Min(a, b), Max(a, b)>>
    IN  IF key \in DOMAIN edgePoints_
        THEN [chain |-> edgePoints_[key], pos |-> pos_, edgePoints |-> edgePoints_]
        ELSE LET lo == key[1]
                 hi == key[2]
                 idx == [t \in 1 .. (K_ + 1) |->
                            IF t = K_ + 1 THEN hi
                            ELSE IF t = 1 THEN lo
                            ELSE Len(pos_) + (t - 2)]
             IN  [chain |-> idx,
                  pos |-> pos_ \o [t \in 1 .. (K_ - 1) |-> EdgePoint(lo, hi, t, K_)],
                  edgePoints |-> edgePoints_ @@ (key :> idx)]

\* the lookup on an edge: element t of the chain, the table as it is afterwards
OnEdge(e, t, faceInterior_) ==
    [idx |-> e.chain[t + 1], pos |-> e.pos, edgePoints |-> e.edgePoints,
     faceInterior |-> faceInterior_]

\* the variant that reads every chain from its stored start
getFaceLatticeIndex_noDirection(A, B, C, i, j, K_, pos_, edgePoints_, faceInterior_) ==
    LET same(v) == [idx |-> v, pos |-> pos_, edgePoints |-> edgePoints_,
                    faceInterior |-> faceInterior_]
    IN  IF i = 0 /\ j = 0 THEN same(A)
        ELSE IF i = K_ /\ j = 0 THEN same(B)
        ELSE IF i = 0 /\ j = K_ THEN same(C)
        ELSE IF j = 0
        THEN OnEdge(getOrBuildEdgePoints(A, B, K_, pos_, edgePoints_), i, faceInterior_)
        ELSE IF i = 0
        THEN OnEdge(getOrBuildEdgePoints(A, C, K_, pos_, edgePoints_), j, faceInterior_)
        ELSE IF i + j = K_
        THEN OnEdge(getOrBuildEdgePoints(B, C, K_, pos_, edgePoints_), K_ - i,
                    faceInterior_)
        ELSE [idx |-> Len(pos_),
              pos |-> Append(pos_, InteriorPoint(A, B, C, i, j, K_)),
              edgePoints |-> edgePoints_,
              faceInterior |-> Append(faceInterior_, Len(pos_))]

\* the index of lattice point (i, j) of face (A, B, C): i steps toward B,
\* j steps toward C
getFaceLatticeIndex(A, B, C, i, j, K_, pos_, edgePoints_, faceInterior_) ==
    LET same(v) == [idx |-> v, pos |-> pos_, edgePoints |-> edgePoints_,
                    faceInterior |-> faceInterior_]
    IN  IF i = 0 /\ j = 0 THEN same(A)
        ELSE IF i = K_ /\ j = 0 THEN same(B)
        ELSE IF i = 0 /\ j = K_ THEN same(C)
        ELSE IF j = 0
        THEN LET forward == (A = Min(A, B))
                 t == IF forward THEN i ELSE K_ - i
             IN  OnEdge(getOrBuildEdgePoints(A, B, K_, pos_, edgePoints_), t,
                        faceInterior_)
        ELSE IF i = 0
        THEN LET forward == (A = Min(A, C))
                 t == IF forward THEN j ELSE K_ - j
             IN  OnEdge(getOrBuildEdgePoints(A, C, K_, pos_, edgePoints_), t,
                        faceInterior_)
        ELSE IF i + j = K_
        THEN LET forward == (B = Min(B, C))
                 tFromB == K_ - i
                 t == IF forward THEN tFromB ELSE K_ - tFromB
             IN  OnEdge(getOrBuildEdgePoints(B, C, K_, pos_, edgePoints_), t,
                        faceInterior_)
        ELSE [idx |-> Len(pos_),
              pos |-> Append(pos_, InteriorPoint(A, B, C, i, j, K_)),
              edgePoints |-> edgePoints_,
              faceInterior |-> Append(faceInterior_, Len(pos_))]

\* the variant that closes no cell with a second triangle
CellTriangles_firstOnly(g, i, j, K_) ==
    <<g[<<i, j>>], g[<<i + 1, j>>], g[<<i, j + 1>>]>>

\* the triangles of cell (i, j): one, and a second where the upper right
\* lattice point exists
CellTriangles(g, i, j, K_) ==
    <<g[<<i, j>>], g[<<i + 1, j>>], g[<<i, j + 1>>]>>
    \o (IF j < K_ - i - 1
        THEN <<g[<<i + 1, j>>], g[<<i + 1, j + 1>>], g[<<i, j + 1>>]>>
        ELSE <<>>)

RECURSIVE RowTriangles(_, _, _, _)
RowTriangles(g, i, j, K_) ==
    IF j < K_ - i
    THEN CellTriangles(g, i, j, K_) \o RowTriangles(g, i, j + 1, K_)
    ELSE <<>>

\* the triangulation loop of one face, rows i = 0 .. K - 1
RECURSIVE FaceTriangles(_, _, _)
FaceTriangles(g, i, K_) ==
    IF i < K_
    THEN RowTriangles(g, i, 0, K_) \o FaceTriangles(g, i + 1, K_)
    ELSE <<>>

\* initSphereMeshForQuality(quality, mesh) is entered
SphereInit ==
    /\ AppInit
    /\ \E quality \in SphereQualityArgs : K = quality + 1
    /\ fi = 0
    /\ gi = 0
    /\ gj = 0
    /\ grid = EmptyFn
    /\ pos = <<>>
    /\ edgePoints = EmptyFn
    /\ faceInterior = <<>>
    /\ indices = <<>>
    /\ bpc = "enter"
    /\ lastReq = NoReq
    /\ firstChain = EmptyFn
    /\ GeomIdle

\* the level check and the twelve initial vertices
initSphereMeshForQuality ==
    /\ bpc = "enter"
    /\ IF K < 1
       THEN /\ bpc' = "aborted"
            /\ pos' = pos
       ELSE /\ bpc' = "grid"
            /\ pos' = gSphereIcosaVerts
    /\ UNCHANGED <<K, fi, gi, gj, grid, edgePoints, faceInterior, indices,
                   lastReq, firstChain, app, geom>>

\* one pass of the lattice loops of face fi
LatticeStep ==
    /\ bpc = "grid"
    /\ LET r == getFaceLatticeIndex(FaceA(fi), FaceB(fi), FaceC(fi), gi, gj, K,
                                    pos, edgePoints, faceInterior)
       IN  /\ grid' = grid @@ (<<gi, gj>> :> r.idx)
           /\ pos' = r.pos
           /\ edgePoints' = r.edgePoints
           /\ faceInterior' = r.faceInterior
    /\ IF gj < K - gi
       THEN gi' = gi /\ gj' = gj + 1 /\ bpc' = "grid"
       ELSE IF gi < K
       THEN gi' = gi + 1 /\ gj' = 0 /\ bpc' = "grid"
       ELSE gi' = 0 /\ gj' = 0 /\ bpc' = "tri"
    /\ UNCHANGED <<K, fi, indices, lastReq, firstChain, app, geom>>

\* the triangulation of face fi, then the next face or the end of the loop
TriangulateFace ==
    /\ bpc = "tri"
    /\ indices' = indices \o FaceTriangles(grid, 0, K)
    /\ grid' = EmptyFn
    /\ fi' = fi + 1
    /\ bpc' = IF fi + 1 < 20 THEN "grid" ELSE "done"
    /\ UNCHANGED <<K, gi, gj, pos, edgePoints, faceInterior, lastReq,
                   firstChain, app, geom>>

NextSphere ==
    \/ initSphereMeshForQuality
    \/ LatticeStep
    \/ TriangulateFace

SpecSphere == SphereInit /\ [][NextSphere]_vars

\* ------------------------------------------------- the weld table alone
WeldInit ==
    /\ AppInit
    /\ K \in 1 .. MaxSubdiv
    /\ fi = 0
    /\ gi = 0
    /\ gj = 0
    /\ grid = EmptyFn
    /\ pos = gSphereIcosaVerts
    /\ edgePoints = EmptyFn
    /\ faceInterior = <<>>
    /\ indices = <<>>
    /\ bpc = "weld"
    /\ lastReq = NoReq
    /\ firstChain = EmptyFn
    /\ GeomIdle

\* one request for the chain of the edge from corner c1 to corner c2 of face f
RequestEdgeChain(f, c1, c2) ==
    /\ bpc = "weld"
    /\ c1 # c2
    /\ \/ {gSphereIcosaFaces[f + 1][c1], gSphereIcosaFaces[f + 1][c2]}
              \in DOMAIN firstChain
       \/ Cardinality(DOMAIN firstChain) < MaxWeldEdges
    /\ LET a == gSphereIcosaFaces[f + 1][c1]
           b == gSphereIcosaFaces[f + 1][c2]
           e == getOrBuildEdgePoints(a, b, K, pos, edgePoints)
           edge == {a, b}
           fresh == edge \notin DOMAIN firstChain
       IN  /\ pos' = e.pos
           /\ edgePoints' = e.edgePoints
           /\ lastReq' = [a |-> a, b |-> b, chain |-> e.chain,
                          created |-> Len(e.pos) - Len(pos), fresh |-> fresh]
           /\ firstChain' = IF fresh THEN firstChain @@ (edge :> e.chain)
                            ELSE firstChain
    /\ UNCHANGED <<K, fi, gi, gj, grid, faceInterior, indices, bpc, app, geom>>

NextWeld ==
    \E f \in WeldFaces, c1 \in 1 .. 3, c2 \in 1 .. 3 :
        RequestEdgeChain(f, c1, c2)

SpecWeld == WeldInit /\ [][NextWeld]_vars

\* ------------------------------------------------- properties of the builder
NumTriangles == Len(indices) \div 3

\* the undirected edges of triangle n of the index list
EdgesOfTriangle(n) ==
    LET v0 == indices[3 * n - 2]
        v1 == indices[3 * n - 1]
        v2 == indices[3 * n]
    IN  {{v0, v1}, {v1, v2}, {v2, v0}}

\* the number of triangles edge e occurs in
EdgeUse(e) == Cardinality({n \in 1 .. NumTriangles : e \in EdgesOfTriangle(n)})

\* C8: for every built quality level the finished icosphere is closed and
\* manifold on vertex indices: every undirected edge that occurs in some
\* triangle occurs in exactly two triangles.
C8_ClosedManifold ==
    (bpc = "done" /\ (K - 1) \in BuiltQualities) =>
        \A n \in 1 .. NumTriangles :
            \A e \in EdgesOfTriangle(n) : Cardinality(e) = 2 /\ EdgeUse(e) = 2

C8_Witness ==
    /\ bpc = "done"
    /\ K = 4
    /\ fi = 20
    /\ Len(pos) = 162
    /\ EdgeUse({0, 12}) = 2

\* C9: for every quality q with K = q + 1 >= 1 the builder emits exactly
\* 20 * K * K triangles, an index count of 60 * K * K.
C9_TriangleCount ==
    (bpc = "done" /\ K >= 1) =>
        /\ Len(indices) = 60 * K * K
        /\ NumTriangles = 20 * K * K

C9_Witness ==
    /\ bpc = "done"
    /\ K = 3
    /\ Len(indices) = 540

\* C10: every request for the chain of an icosahedron edge, from either
\* adjoining face, in either endpoint order and in any request order,
\* refers to the same stored chain of K + 1 vertex indices; the first
\* request creates exactly K - 1 points and every later request none.
C10_SameChainCreatedOnce ==
    bpc = "weld" =>
        /\ \A edge \in DOMAIN firstChain :
               \E lo \in edge, hi \in edge :
                   /\ lo < hi
                   /\ <<lo, hi>> \in DOMAIN edgePoints
                   /\ edgePoints[<<lo, hi>>] = firstChain[edge]
                   /\ Len(firstChain[edge]) = K + 1
                   /\ firstChain[edge][1] = lo
                   /\ firstChain[edge][K + 1] = hi
        /\ lastReq # NoReq =>
               /\ {lastReq.a, lastReq.b} \in DOMAIN firstChain
               /\ lastReq.chain = firstChain[{lastReq.a, lastReq.b}]
               /\ lastReq.created = IF lastReq.fresh THEN K - 1 ELSE 0

C10_Witness ==
    /\ bpc = "weld"
    /\ K = 3
    /\ lastReq.a = 0
    /\ lastReq.b = 4
    /\ ~lastReq.fresh
    /\ lastReq.created = 0
    /\ lastReq.chain = <<0, 14, 15, 4>>
    /\ Cardinality(DOMAIN edgePoints) = 2

\* the position n steps from corner P toward corner Q on the edge {P, Q}
\* divided in K: the corners themselves at the ends, else the point at
\* fraction n / K of the way from P
StepsFrom(P, Q, n) ==
    IF n = 0 THEN gSphereIcosaVerts[P + 1]
    ELSE IF n = K THEN gSphereIcosaVerts[Q + 1]
    ELSE EdgePoint(Min(P, Q), Max(P, Q), IF P < Q THEN n ELSE K - n, K)

\* the stored chain of the edge {P, Q}, read from P
ChainFrom(P, Q) ==
    LET c == edgePoints[<<Min(P, Q), Max(P, Q)>>]
    IN  IF P < Q THEN c ELSE [t \in 1 .. Len(c) |-> c[Len(c) + 1 - t]]

\* C27: on the three edges of the face being built, lattice point (i, 0) is
\* the vertex i steps from A toward B, (0, j) the vertex j steps from A
\* toward C and (i, j) with i + j = K the vertex j steps from B toward C, in
\* position and as element of that edge's chain, whichever endpoint is the
\* canonical low one; the ends of a chain are the corner indices themselves
C27_EdgeLatticeDirection ==
    bpc \in {"grid", "tri"} =>
        LET A == FaceA(fi)
            B == FaceB(fi)
            C == FaceC(fi)
            At(P, Q, n, idx) ==
                /\ pos[idx + 1] = StepsFrom(P, Q, n)
                /\ (n = 0 => idx = P)
                /\ (n = K => idx = Q)
                /\ (0 < n /\ n < K) => idx = ChainFrom(P, Q)[n + 1]
        IN  \A ij \in DOMAIN grid :
                /\ ij[2] = 0 => At(A, B, ij[1], grid[ij])
                /\ ij[1] = 0 => At(A, C, ij[2], grid[ij])
                /\ ij[1] + ij[2] = K => At(B, C, ij[2], grid[ij])

C27_Witness ==
    /\ bpc = "grid"
    /\ K = 3
    /\ fi = 0
    /\ FaceA(fi) > FaceC(fi)
    /\ <<0, 1>> \in DOMAIN grid
    /\ pos[grid[<<0, 1>>] + 1] = EdgePoint(0, 1, 2, 3)
    /\ <<1, 2>> \in DOMAIN grid
    /\ pos[grid[<<1, 2>>] + 1] = EdgePoint(0, 4, 1, 3)

\* ------------------------------------------------- the capsule builder
\* the built capsule qualities give div = 4, 6, 8 cells per cube face edge
div == quality_ * 2 + 2

\* the cube faces in the order the cap builder visits them
faces == <<"PX", "NX", "PY", "NY", "PZ", "NZ">>

\* the grid coordinate -1 + 2 * i / div, in units of 1 / div
Coord(i) == 2 * i - div

\* a point in units of 1 / div; cut is empty except for a point made by
\* cutting a segment at the plane
Pt(x, y, z) == [x |-> x, y |-> y, z |-> z, cut |-> {}]

\* u, v in [-1, 1], here in [-div, div]
cubeToDir(f, u, v) ==
    CASE f = "PX" -> Pt(div, v, -u)
      [] f = "NX" -> Pt(-div, v, u)
      [] f = "PY" -> Pt(u, div, -v)
      [] f = "NY" -> Pt(u, -div, v)
      [] f = "PZ" -> Pt(u, v, div)
      [] f = "NZ" -> Pt(-u, v, -div)

\* the unit vector along p, named by the point of the cube surface it
\* passes through
normalize(p) == p

signedPlaneZ(pLocal, top) == IF top THEN pLocal.z ELSE -pLocal.z

\* the point P + t * (Q - P), t = VP / (VP - VQ), snapped to the equator:
\* P itself for t = 0, Q itself for t = 1, else a new point of the equator
Intersection(P, Q, VP, VQ) ==
    IF VP = 0 THEN P
    ELSE IF VQ = 0 THEN Q
    ELSE [x |-> 0, y |-> 0, z |-> 0, cut |-> {P, Q}]

\* the variant whose entering edge emits the intersection only
ClipEdge_dropEntered(P, Q, top) ==
    LET VP == signedPlaneZ(P, top)
        VQ == signedPlaneZ(Q, top)
        in1 == VP >= 0
        in2 == VQ >= 0
    IN  IF in1 /\ in2 THEN <<Q>>
        ELSE IF in1 /\ ~in2 THEN <<Intersection(P, Q, VP, VQ)>>
        ELSE IF ~in1 /\ in2 THEN <<Intersection(P, Q, VP, VQ)>>
        ELSE <<>>

\* one pass of clipOnce: what the edge from P to Q emits
ClipEdge(P, Q, top) ==
    LET VP == signedPlaneZ(P, top)
        VQ == signedPlaneZ(Q, top)
        in1 == VP >= 0
        in2 == VQ >= 0
    IN  IF in1 /\ in2 THEN <<Q>>
        ELSE IF in1 /\ ~in2 THEN <<Intersection(P, Q, VP, VQ)>>
        ELSE IF ~in1 /\ in2 THEN <<Intersection(P, Q, VP, VQ), Q>>
        ELSE <<>>

\* the triangle clipped against local z >= 0 (top) or z <= 0 (bottom)
clipTriToHemisphere(aL, bL, cL, top) ==
    ClipEdge(aL, bL, top) \o ClipEdge(bL, cL, top) \o ClipEdge(cL, aL, top)

\* polygon -> triangle fan around poly[0]
triangulatePolyFan(poly) ==
    IF Len(poly) < 3 THEN <<>>
    ELSE [i \in 1 .. (Len(poly) - 2) |-> <<poly[1], poly[i + 1], poly[i + 2]>>]

\* the centre of the cap's sphere, (0, 0, +l) or (0, 0, -l)
Center(top) == IF top THEN "+l" ELSE "-l"

\* the weld key of a vertex: its quantised position and normal; the quantum
\* (1e-6) keeps distinct grid points apart and joins equal ones
VKey(position, nrm) == <<position, nrm>>

addVertexWelded(verts, map, position, nrm) ==
    LET key == VKey(position, nrm)
    IN  IF key \in DOMAIN map
        THEN [idx |-> map[key], verts |-> verts, map |-> map]
        ELSE [idx |-> Len(verts),
              verts |-> Append(verts, [pos |-> position, normal |-> normalize(nrm)]),
              map |-> map @@ (key :> Len(verts))]

\* emitTriLocal: three welded vertices, three indices
emitTriLocal(st, tri, top) ==
    LET a == addVertexWelded(st.verts, st.map,
                             [center |-> Center(top), local |-> tri[1]],
                             normalize(tri[1]))
        b == addVertexWelded(a.verts, a.map,
                             [center |-> Center(top), local |-> tri[2]],
                             normalize(tri[2]))
        c == addVertexWelded(b.verts, b.map,
                             [center |-> Center(top), local |-> tri[3]],
                             normalize(tri[3]))
    IN  [verts |-> c.verts, map |-> c.map,
         indices |-> st.indices \o <<a.idx, b.idx, c.idx>>]

RECURSIVE EmitTris(_, _, _, _)
EmitTris(st, tris, n, top) ==
    IF n > Len(tris) THEN st
    ELSE EmitTris(emitTriLocal(st, tris[n], top), tris, n + 1, top)

\* one cell of one cube face: its two triangles clipped, fanned and emitted
CapCell(st, f, x, y, top) ==
    LET u0 == Coord(x)
        u1 == Coord(x + 1)
        v0 == Coord(y)
        v1 == Coord(y + 1)
        p00 == normalize(cubeToDir(f, u0, v0))
        p10 == normalize(cubeToDir(f, u1, v0))
        p01 == normalize(cubeToDir(f, u0, v1))
        p11 == normalize(cubeToDir(f, u1, v1))
        tris == triangulatePolyFan(clipTriToHemisphere(p00, p10, p11, top))
                \o triangulatePolyFan(clipTriToHemisphere(p00, p11, p01, top))
    IN  EmitTris(st, tris, 1, top)

\* the variant that samples every side at uniform angles
buildCubedSphereEquatorRingXY_uniformAngle ==
    [k \in 1 .. (4 * div) |->
        LET i == (k - 1) % div
            side == (k - 1) \div div
        IN  [x |-> side, y |-> i, z |-> 0, cut |-> {"angle"}]]

\* the closed ring of 4 * div points of the cube's equator
buildCubedSphereEquatorRingXY ==
    [k \in 1 .. (4 * div) |->
        LET i == (k - 1) % div
            side == (k - 1) \div div
        IN  CASE side = 0 -> normalize(Pt(div, Coord(i), 0))
              [] side = 1 -> normalize(Pt(-Coord(i), div, 0))
              [] side = 2 -> normalize(Pt(-div, -Coord(i), 0))
              [] side = 3 -> normalize(Pt(Coord(i), -div, 0))]

\* the band vertices: for i = 0 .. m a top and a bottom vertex over
\* ring[i % m]
BandVerts(ring) ==
    LET m == Len(ring)
    IN  [n \in 1 .. (2 * (m + 1)) |->
            LET i == (n - 1) \div 2
                xy == ring[(i % m) + 1]
            IN  [pos |-> [center |-> IF n % 2 = 1 THEN "+l" ELSE "-l", local |-> xy],
                 normal |-> normalize(xy)]]

\* the band indices: two triangles between consecutive pairs
BandIndices(ring) ==
    LET m == Len(ring)
    IN  [n \in 1 .. (6 * m) |->
            LET i == ((n - 1) \div 6) + 1
                prevTop == 2 * (i - 1)
                prevBottom == 2 * (i - 1) + 1
                vTop == 2 * i
                vBottom == 2 * i + 1
            IN  <<prevTop, prevBottom, vTop, prevBottom, vBottom, vTop>>[((n - 1) % 6) + 1]]

\* initUnitCapsulePartsForQuality(quality, ...) is entered
CapsuleInit ==
    /\ AppInit
    /\ K = 0
    /\ fi = 0
    /\ gi = 0
    /\ gj = 0
    /\ grid = EmptyFn
    /\ pos = <<>>
    /\ edgePoints = EmptyFn
    /\ faceInterior = <<>>
    /\ indices = <<>>
    /\ bpc = "idle"
    /\ lastReq = NoReq
    /\ firstChain = EmptyFn
    /\ quality_ \in BuiltQualities
    /\ cpc = "band"
    /\ cf = 0
    /\ cy = 0
    /\ cx = 0
    /\ outVerts = <<>>
    /\ welded = EmptyFn
    /\ outIndices = <<>>
    /\ cylVerts = <<>>
    /\ cylIndices = <<>>
    /\ capTopVerts = <<>>
    /\ capTopIndices = <<>>
    /\ capBottomVerts = <<>>
    /\ capBottomIndices = <<>>
    /\ DriverIdle
    /\ ExtraIdle

\* part 1: the ring and the band over it
BuildBand ==
    /\ cpc = "band"
    /\ cylVerts' = BandVerts(buildCubedSphereEquatorRingXY)
    /\ cylIndices' = BandIndices(buildCubedSphereEquatorRingXY)
    /\ cpc' = "capTop"
    /\ UNCHANGED <<quality_, cf, cy, cx, outVerts, welded, outIndices,
                   capTopVerts, capTopIndices, capBottomVerts, capBottomIndices,
                   app, sphere, driver, extra>>

\* parts 2 and 3: one cell of buildHemisphereCapCubedSphere; after the last
\* cell of the last face the cap is handed back
CapCellStep ==
    /\ cpc \in {"capTop", "capBottom"}
    /\ LET top == (cpc = "capTop")
           st == CapCell([verts |-> outVerts, map |-> welded, indices |-> outIndices],
                         faces[cf + 1], cx, cy, top)
           last == (cx + 1 = div /\ cy + 1 = div /\ cf + 1 = 6)
       IN  /\ cx' = IF cx + 1 < div THEN cx + 1 ELSE 0
           /\ cy' = IF cx + 1 < div THEN cy
                    ELSE IF cy + 1 < div THEN cy + 1 ELSE 0
           /\ cf' = IF cx + 1 < div \/ cy + 1 < div THEN cf
                    ELSE IF cf + 1 < 6 THEN cf + 1 ELSE 0
           /\ IF last
              THEN /\ outVerts' = <<>>
                   /\ welded' = EmptyFn
                   /\ outIndices' = <<>>
                   /\ IF top
                      THEN /\ capTopVerts' = st.verts
                           /\ capTopIndices' = st.indices
                           /\ UNCHANGED <<capBottomVerts, capBottomIndices>>
                           /\ cpc' = "capBottom"
                      ELSE /\ capBottomVerts' = st.verts
                           /\ capBottomIndices' = st.indices
                           /\ UNCHANGED <<capTopVerts, capTopIndices>>
                           /\ cpc' = "done"
              ELSE /\ outVerts' = st.verts
                   /\ welded' = st.map
                   /\ outIndices' = st.indices
                   /\ UNCHANGED <<cpc, capTopVerts, capTopIndices,
                                  capBottomVerts, capBottomIndices>>
    /\ UNCHANGED <<quality_, cylVerts, cylIndices, app, sphere, driver, extra>>

NextCapsule ==
    \/ BuildBand
    \/ CapCellStep

SpecCapsule == CapsuleInit /\ [][NextCapsule]_vars

\* ------------------------------------------------- properties of the capsule
\* the undirected edges of triangle n of index list ix
TriEdges(ix, n) ==
    {{ix[3 * n - 2], ix[3 * n - 1]}, {ix[3 * n - 1], ix[3 * n]},
     {ix[3 * n], ix[3 * n - 2]}}

\* the number of triangles of ix that edge e occurs in
EdgeCount(ix, e) ==
    Cardinality({n \in 1 .. (Len(ix) \div 3) : e \in TriEdges(ix, n)})

\* the vertices of a cap that lie on its equator
SeamVertices(verts) == {i \in 0 .. (Len(verts) - 1) : verts[i + 1].pos.local.z = 0}

\* every edge off the seam is in two triangles, every seam edge in one
CapManifold(verts, ix) ==
    \A n \in 1 .. (Len(ix) \div 3) :
        \A e \in TriEdges(ix, n) :
            Cardinality(e) = 2 =>
                EdgeCount(ix, e) = IF e \subseteq SeamVertices(verts) THEN 1 ELSE 2

\* C11: for every built capsule quality, in each cap mesh every undirected
\* edge off the equator seam occurs in exactly two triangles and every edge
\* on the seam in exactly one.
C11_CapEdgesManifold ==
    cpc = "done" =>
        /\ CapManifold(capTopVerts, capTopIndices)
        /\ CapManifold(capBottomVerts, capBottomIndices)

\* the positions of the band's upper (top = TRUE) or lower ring, one per
\* ring point
BandRing(top) ==
    {cylVerts[n].pos : n \in {k \in 1 .. (2 * (4 * div)) : (k % 2 = 1) = top}}

SeamPositions(verts) == {verts[i + 1].pos : i \in SeamVertices(verts)}

\* C12: for every built capsule quality q (div = 2q + 2) each cap has
\* exactly 4 * div vertices on the equator seam, as many as the band ring
\* has points, and the seam vertices are the ring points one for one.
C12_SeamMatchesRing ==
    cpc = "done" =>
        /\ Len(buildCubedSphereEquatorRingXY) = 4 * div
        /\ Cardinality(BandRing(TRUE)) = 4 * div
        /\ Cardinality(BandRing(FALSE)) = 4 * div
        /\ Cardinality(SeamVertices(capTopVerts)) = 4 * div
        /\ Cardinality(SeamVertices(capBottomVerts)) = 4 * div
        /\ SeamPositions(capTopVerts) = BandRing(TRUE)
        /\ SeamPositions(capBottomVerts) = BandRing(FALSE)

C12_Witness ==
    /\ cpc = "done"
    /\ quality_ = 2
    /\ Cardinality(SeamVertices(capTopVerts)) = 24
    /\ Len(cylVerts) = 50

\* ------------------------------------------------- createPrimitiveMeshes
\* what a finished mesh keeps: its vertices and its index list
Mesh(verts, ix) == [vertexCount |-> Len(verts), indices |-> ix, indexCount |-> Len(ix)]

\* the 24 vertices of the unit box, positions in units of 0.5
BoxVertices ==
    << [pos |-> <<1, -1, -1>>, normal |-> <<1, 0, 0>>],
       [pos |-> <<1, 1, -1>>, normal |-> <<1, 0, 0>>],
       [pos |-> <<1, 1, 1>>, normal |-> <<1, 0, 0>>],
       [pos |-> <<1, -1, 1>>, normal |-> <<1, 0, 0>>],
       [pos |-> <<-1, -1, 1>>, normal |-> <<-1, 0, 0>>],
       [pos |-> <<-1, 1, 1>>, normal |-> <<-1, 0, 0>>],
       [pos |-> <<-1, 1, -1>>, normal |-> <<-1, 0, 0>>],
       [pos |-> <<-1, -1, -1>>, normal |-> <<-1, 0, 0>>],
       [pos |-> <<-1, 1, -1>>, normal |-> <<0, 1, 0>>],
       [pos |-> <<-1, 1, 1>>, normal |-> <<0, 1, 0>>],
       [pos |-> <<1, 1, 1>>, normal |-> <<0, 1, 0>>],
       [pos |-> <<1, 1, -1>>, normal |-> <<0, 1, 0>>],
       [pos |-> <<-1, -1, 1>>, normal |-> <<0, -1, 0>>],
       [pos |-> <<-1, -1, -1>>, normal |-> <<0, -1, 0>>],
       [pos |-> <<1, -1, -1>>, normal |-> <<0, -1, 0>>],
       [pos |-> <<1, -1, 1>>, normal |-> <<0, -1, 0>>],
       [pos |-> <<-1, -1, 1>>, normal |-> <<0, 0, 1>>],
       [pos |-> <<1, -1, 1>>, normal |-> <<0, 0, 1>>],
       [pos |-> <<1, 1, 1>>, normal |-> <<0, 0, 1>>],
       [pos |-> <<-1, 1, 1>>, normal |-> <<0, 0, 1>>],
       [pos |-> <<1, -1, -1>>, normal |-> <<0, 0, -1>>],
       [pos |-> <<-1, -1, -1>>, normal |-> <<0, 0, -1>>],
       [pos |-> <<-1, 1, -1>>, normal |-> <<0, 0, -1>>],
       [pos |-> <<1, 1, -1>>, normal |-> <<0, 0, -1>>] >>

BoxIndices ==
    << 0, 1, 2, 0, 2, 3,
       4, 5, 6, 4, 6, 7,
       8, 9, 10, 8, 10, 11,
       12, 13, 14, 12, 14, 15,
       16, 17, 18, 16, 18, 19,
       20, 21, 22, 20, 22, 23 >>

\* the variant that steps to the next slice without wrapping around
NextSlice_noWrap(i, n) == i + 1

\* the slice after slice i of n
NextSlice(i, n) == (i + 1) % n

\* quality -> slices, with the quality clamped to 1 .. 3
Slices(q_in) ==
    LET q == IF q_in < 1 THEN 1 ELSE IF q_in > 3 THEN 3 ELSE q_in
    IN  CASE q = 1 -> 12
          [] q = 2 -> 24
          [] OTHER -> 48

\* the unit cylinder: side pairs, top centre and ring, bottom centre and ring
CylinderVertices(n) ==
    [k \in 1 .. (2 * n) |->
        [pos |-> <<"theta", (k - 1) \div 2, IF k % 2 = 1 THEN "+h" ELSE "-h">>,
         normal |-> <<"theta", (k - 1) \div 2>>]]
    \o <<[pos |-> <<"axis", 0, "+h">>, normal |-> <<"+z", 0>>]>>
    \o [k \in 1 .. n |-> [pos |-> <<"theta", k - 1, "+h">>, normal |-> <<"+z", 0>>]]
    \o <<[pos |-> <<"axis", 0, "-h">>, normal |-> <<"-z", 0>>]>>
    \o [k \in 1 .. n |-> [pos |-> <<"theta", k - 1, "-h">>, normal |-> <<"-z", 0>>]]

CylinderIndices(n) ==
    LET topCenterIndex == 2 * n
        topRingStart == 2 * n + 1
        bottomCenterIndex == 3 * n + 1
        bottomRingStart == 3 * n + 2
        side == [k \in 1 .. (6 * n) |->
                    LET i == (k - 1) \div 6
                        j == NextSlice(i, n)
                    IN  <<2 * i, 2 * i + 1, 2 * j,
                          2 * i + 1, 2 * j + 1, 2 * j>>[((k - 1) % 6) + 1]]
        topCap == [k \in 1 .. (3 * n) |->
                    LET i == (k - 1) \div 3
                        j == NextSlice(i, n)
                    IN  <<topCenterIndex, topRingStart + i,
                          topRingStart + j>>[((k - 1) % 3) + 1]]
        bottomCap == [k \in 1 .. (3 * n) |->
                    LET i == (k - 1) \div 3
                        j == NextSlice(i, n)
                    IN  <<bottomCenterIndex, bottomRingStart + j,
                          bottomRingStart + i>>[((k - 1) % 3) + 1]]
    IN  side \o topCap \o bottomCap

initCylinderMeshForQuality(q_in) ==
    Mesh(CylinderVertices(Slices(q_in)), CylinderIndices(Slices(q_in)))

\* a call of initSphereMeshForQuality(q, ...)
EnterSphere(q) ==
    /\ K' = q + 1
    /\ fi' = 0
    /\ gi' = 0
    /\ gj' = 0
    /\ grid' = EmptyFn
    /\ pos' = <<>>
    /\ edgePoints' = EmptyFn
    /\ faceInterior' = <<>>
    /\ indices' = <<>>
    /\ bpc' = "enter"
    /\ UNCHANGED <<lastReq, firstChain>>

\* the locals of the sphere builder are gone
LeaveSphere ==
    /\ K' = 0
    /\ fi' = 0
    /\ gi' = 0
    /\ gj' = 0
    /\ grid' = EmptyFn
    /\ pos' = <<>>
    /\ edgePoints' = EmptyFn
    /\ faceInterior' = <<>>
    /\ indices' = <<>>
    /\ bpc' = "idle"
    /\ UNCHANGED <<lastReq, firstChain>>

\* a call of initUnitCapsulePartsForQuality(q, ...); q = 0: its locals are gone
EnterCapsule(q) ==
    /\ quality_' = q
    /\ cpc' = IF q = 0 THEN "idle" ELSE "band"
    /\ cf' = 0
    /\ cy' = 0
    /\ cx' = 0
    /\ outVerts' = <<>>
    /\ welded' = EmptyFn
    /\ outIndices' = <<>>
    /\ cylVerts' = <<>>
    /\ cylIndices' = <<>>
    /\ capTopVerts' = <<>>
    /\ capTopIndices' = <<>>
    /\ capBottomVerts' = <<>>
    /\ capBottomIndices' = <<>>

\* createPrimitiveMeshes is entered
MeshesInit ==
    /\ AppInit
    /\ K = 0
    /\ fi = 0
    /\ gi = 0
    /\ gj = 0
    /\ grid = EmptyFn
    /\ pos = <<>>
    /\ edgePoints = EmptyFn
    /\ faceInterior = <<>>
    /\ indices = <<>>
    /\ bpc = "idle"
    /\ lastReq = NoReq
    /\ firstChain = EmptyFn
    /\ CapsuleIdle
    /\ mpc = [stage |-> "box", q |-> 0]
    /\ meshes = EmptyFn
    /\ ExtraIdle

\* the box mesh, then the first sphere is begun
createBoxMesh ==
    /\ mpc.stage = "box"
    /\ meshes' = meshes @@ (<<"box", 0>> :> Mesh(BoxVertices, BoxIndices))
    /\ mpc' = [stage |-> "sphere", q |-> 1]
    /\ EnterSphere(1)
    /\ UNCHANGED <<app, capsule, extra>>

\* a sphere mesh is finished; the next sphere or the cylinders follow
SphereReturn ==
    /\ mpc.stage = "sphere"
    /\ bpc = "done"
    /\ meshes' = meshes @@ (<<"sphere", mpc.q>> :> Mesh(pos, indices))
    /\ IF (mpc.q + 1) \in BuiltQualities
       THEN /\ mpc' = [stage |-> "sphere", q |-> mpc.q + 1]
            /\ EnterSphere(mpc.q + 1)
       ELSE /\ mpc' = [stage |-> "cylinder", q |-> 1]
            /\ LeaveSphere
    /\ UNCHANGED <<app, capsule, extra>>

\* one cylinder mesh; after the last the first capsule is begun
createCylinderMesh ==
    /\ mpc.stage = "cylinder"
    /\ meshes' = meshes @@ (<<"cylinder", mpc.q>> :> initCylinderMeshForQuality(mpc.q))
    /\ IF (mpc.q + 1) \in BuiltQualities
       THEN /\ mpc' = [stage |-> "cylinder", q |-> mpc.q + 1]
            /\ UNCHANGED capsule
       ELSE /\ mpc' = [stage |-> "capsule", q |-> 1]
            /\ EnterCapsule(1)
    /\ UNCHANGED <<app, sphere, extra>>

\* the three meshes of a capsule are finished (initMeshFromVectors)
CapsuleReturn ==
    /\ mpc.stage = "capsule"
    /\ cpc = "done"
    /\ meshes' = meshes @@ (<<"capsuleCylinder", mpc.q>> :> Mesh(cylVerts, cylIndices))
                        @@ (<<"capsuleCapTop", mpc.q>> :> Mesh(capTopVerts, capTopIndices))
                        @@ (<<"capsuleCapBottom", mpc.q>> :>
                                Mesh(capBottomVerts, capBottomIndices))
    /\ IF (mpc.q + 1) \in BuiltQualities
       THEN /\ mpc' = [stage |-> "capsule", q |-> mpc.q + 1]
            /\ EnterCapsule(mpc.q + 1)
       ELSE /\ mpc' = [stage |-> "done", q |-> 0]
            /\ EnterCapsule(0)
    /\ UNCHANGED <<app, sphere, extra>>

NextMeshes ==
    \/ createBoxMesh
    \/ initSphereMeshForQuality
    \/ LatticeStep
    \/ TriangulateFace
    \/ SphereReturn
    \/ createCylinderMesh
    \/ BuildBand
    \/ CapCellStep
    \/ CapsuleReturn

SpecMeshes == MeshesInit /\ [][NextMeshes]_vars

\* ------------------------------------------------- builders and any quality
\* the qualities initCylinderMeshForQuality is called with: the built ones
\* and their neighbours
CylinderQualityArgs == 0 .. 4

\* initSphereMeshForQuality is entered with any quality, and a call of
\* initCylinderMeshForQuality with any quality is pending
AnyQualityInit ==
    /\ AppInit
    /\ \E quality \in SphereQualityArgs : K = quality + 1
    /\ fi = 0
    /\ gi = 0
    /\ gj = 0
    /\ grid = EmptyFn
    /\ pos = <<>>
    /\ edgePoints = EmptyFn
    /\ faceInterior = <<>>
    /\ indices = <<>>
    /\ bpc = "enter"
    /\ lastReq = NoReq
    /\ firstChain = EmptyFn
    /\ CapsuleIdle
    /\ mpc \in [stage : {"cylinder"}, q : CylinderQualityArgs]
    /\ meshes = EmptyFn
    /\ ExtraIdle

\* one call of initCylinderMeshForQuality(quality, dstMesh): it returns with
\* the mesh filled in
callCylinderBuilder ==
    /\ mpc.stage = "cylinder"
    /\ meshes' = meshes @@ (<<"cylinder", mpc.q>> :> initCylinderMeshForQuality(mpc.q))
    /\ mpc' = [stage |-> "done", q |-> mpc.q]
    /\ UNCHANGED <<app, sphere, capsule, extra>>

NextAnyBuilder ==
    \/ initSphereMeshForQuality
    \/ LatticeStep
    \/ TriangulateFace
    \/ callCylinderBuilder

SpecAnyBuilder == AnyQualityInit /\ [][NextAnyBuilder]_vars

\* every index names a vertex and the indices come in triples
WellFormed(m) ==
    /\ \A i \in DOMAIN m.indices : m.indices[i] >= 0 /\ m.indices[i] < m.vertexCount
    /\ m.indexCount % 3 = 0
    /\ m.indexCount = Len(m.indices)

\* C13: every mesh of the primitive builders (box, sphere, cylinder, capsule
\* band, top cap, bottom cap, at every built quality) has every index
\* smaller than its vertex count and an index count that is a multiple of 3.
C13_IndicesInRange ==
    \A k \in DOMAIN meshes : WellFormed(meshes[k])

C13_Witness ==
    /\ mpc.stage = "done"
    /\ DOMAIN meshes = {<<"box", 0>>}
                       \cup ({"sphere", "cylinder", "capsuleCylinder", "capsuleCapTop",
                              "capsuleCapBottom"} \X BuiltQualities)
    /\ meshes[<<"cylinder", 3>>].vertexCount = 194
    /\ meshes[<<"capsuleCapTop", 1>>].indexCount = 432

\* ------------------------------------------------- registered meshes
\* the flat cube: 8 vertices, vertex i at (i % 2, (i / 2) % 2, i / 4)
CubeVertices == [i \in 1 .. 8 |-> <<(i - 1) % 2, ((i - 1) \div 2) % 2, (i - 1) \div 4>>]

\* its 12 triangles, two per face, counter-clockwise seen from outside
CubeIndices ==
    << 0, 4, 6, 0, 6, 2,
       1, 3, 7, 1, 7, 5,
       0, 1, 5, 0, 5, 4,
       2, 6, 7, 2, 7, 3,
       0, 2, 3, 0, 3, 1,
       4, 5, 7, 4, 7, 6 >>

\* the triangles short index lists are made of: two of one cube face, one of
\* a neighbouring face, one with one index out of range, one with all three
TriChoices == {<<0, 2, 3>>, <<0, 3, 1>>, <<0, 1, 5>>, <<0, 1, 8>>, <<9, 8, 10>>}

\* the crease thresholds a build is asked for, in degrees
CreaseAngles == {0, 60, 180}

Sub3(a, b) == <<a[1] - b[1], a[2] - b[2], a[3] - b[3]>>
Add3(a, b) == <<a[1] + b[1], a[2] + b[2], a[3] + b[3]>>
dot(a, b) == a[1] * b[1] + a[2] * b[2] + a[3] * b[3]
cross(u, v) ==
    <<u[2] * v[3] - u[3] * v[2], u[3] * v[1] - u[1] * v[3], u[1] * v[2] - u[2] * v[1]>>
Sgn(x) == IF x > 0 THEN 1 ELSE IF x < 0 THEN -1 ELSE 0

\* glm::normalize of a vector along a coordinate axis, the only face normals
\* that the inputs taken here have
normalizeAxis(N) == <<Sgn(N[1]), Sgn(N[2]), Sgn(N[3])>>

\* a cosine d / sqrt(n2), kept exact
Cos(d, n2) == [d |-> d, n2 |-> n2]

\* c1 > c2
CosGreater(c1, c2) ==
    IF c1.d >= 0 /\ c2.d < 0 THEN TRUE
    ELSE IF c1.d < 0 /\ c2.d >= 0 THEN FALSE
    ELSE IF c1.d >= 0 THEN c1.d * c1.d * c2.n2 > c2.d * c2.d * c1.n2
    ELSE c1.d * c1.d * c2.n2 < c2.d * c2.d * c1.n2

\* the sine of the angle in place of its cosine
cosThreshold_sine(creaseAngleDegrees) ==
    CASE creaseAngleDegrees = 0 -> Cos(0, 1)
      [] creaseAngleDegrees = 60 -> Cos(3, 12)
      [] creaseAngleDegrees = 90 -> Cos(1, 1)
      [] creaseAngleDegrees = 180 -> Cos(0, 1)

\* std::cos(glm::radians(creaseAngleDegrees))
cosThreshold(creaseAngleDegrees) ==
    CASE creaseAngleDegrees = 0 -> Cos(1, 1)
      [] creaseAngleDegrees = 60 -> Cos(1, 4)
      [] creaseAngleDegrees = 90 -> Cos(0, 1)
      [] creaseAngleDegrees = 180 -> Cos(-1, 1)

\* step 1: the unit face normal of triangle t (0-based), (0, 1, 0) when an
\* index is out of range or the triangle has no area
faceNormal(positions, indices_, t) ==
    LET numVerts == Len(positions)
        i0 == indices_[3 * t + 1]
        i1 == indices_[3 * t + 2]
        i2 == indices_[3 * t + 3]
    IN  IF i0 >= numVerts \/ i1 >= numVerts \/ i2 >= numVerts
        THEN <<0, 1, 0>>
        ELSE LET N == cross(Sub3(positions[i1 + 1], positions[i0 + 1]),
                            Sub3(positions[i2 + 1], positions[i0 + 1]))
             IN  IF dot(N, N) > 0 THEN normalizeAxis(N) ELSE <<0, 1, 0>>

\* step 2: the corners that use vertex v, by triangle and corner; a corner
\* whose index is out of range is in no vertex's list
adjacency(indices_, v) ==
    SelectSeq([k \in 1 .. (3 * (Len(indices_) \div 3)) |->
                  [tri |-> (k - 1) \div 3, corner |-> (k - 1) % 3]],
              LAMBDA cr : indices_[3 * cr.tri + cr.corner + 1] = v)

\* the cluster whose representative normal is nearest to nFace
RECURSIVE BestCluster(_, _, _, _)
BestCluster(clusters, ci, nFace, best) ==
    IF ci > Len(clusters) THEN best
    ELSE LET rep == clusters[ci].repNormal
             d == Cos(dot(nFace, rep), dot(rep, rep))
         IN  IF CosGreater(d, best.bestDot)
             THEN BestCluster(clusters, ci + 1, nFace, [bestIndex |-> ci - 1, bestDot |-> d])
             ELSE BestCluster(clusters, ci + 1, nFace, best)

\* step 4, inner loop: corner cr joins the nearest cluster or opens a new one
AddCorner(clusters, cr, nFace, creaseAngleDegrees) ==
    LET best == BestCluster(clusters, 1, nFace,
                            [bestIndex |-> -1, bestDot |-> Cos(-1, 1)])
    IN  IF best.bestIndex < 0
           \/ CosGreater(cosThreshold(creaseAngleDegrees), best.bestDot)
        THEN Append(clusters, [normalAccum |-> nFace, repNormal |-> nFace,
                               members |-> <<cr>>])
        ELSE LET c == clusters[best.bestIndex + 1]
                 acc == Add3(c.normalAccum, nFace)
             IN  [clusters EXCEPT ![best.bestIndex + 1] =
                     [normalAccum |-> acc,
                      repNormal |-> IF dot(acc, acc) > 0 THEN acc ELSE c.repNormal,
                      members |-> Append(c.members, cr)]]

RECURSIVE ClustersOf(_, _, _, _, _)
ClustersOf(clusters, corners, n, faceNormals, creaseAngleDegrees) ==
    IF n > Len(corners) THEN clusters
    ELSE ClustersOf(AddCorner(clusters, corners[n], faceNormals[corners[n].tri + 1],
                              creaseAngleDegrees),
                    corners, n + 1, faceNormals, creaseAngleDegrees)

\* one new vertex per cluster; the corners of the cluster get its index
RECURSIVE EmitClusters(_, _, _, _)
EmitClusters(result, clusters, n, position) ==
    IF n > Len(clusters) THEN result
    ELSE LET c == clusters[n]
             newIndex == Len(result.vertices)
             newV == [pos |-> position,
                      normal |-> IF dot(c.normalAccum, c.normalAccum) > 0
                                 THEN [along |-> c.normalAccum]
                                 ELSE [along |-> <<0, 1, 0>>]]
             slots == {3 * c.members[m].tri + c.members[m].corner + 1 :
                          m \in 1 .. Len(c.members)}
         IN  EmitClusters([vertices |-> Append(result.vertices, newV),
                           indices |-> [k \in 1 .. Len(result.indices) |->
                                           IF k \in slots THEN newIndex
                                           ELSE result.indices[k]]],
                          clusters, n + 1, position)

\* step 4, outer loop over the input vertices v = 0 .. numVerts - 1
RECURSIVE CreaseVertices(_, _, _, _, _, _)
CreaseVertices(result, positions, indices_, v, faceNormals, creaseAngleDegrees) ==
    IF v >= Len(positions) THEN result
    ELSE LET corners == adjacency(indices_, v)
         IN  IF corners = <<>>
             THEN CreaseVertices(result, positions, indices_, v + 1, faceNormals,
                                 creaseAngleDegrees)
             ELSE CreaseVertices(
                      EmitClusters(result,
                                   ClustersOf(<<>>, corners, 1, faceNormals,
                                              creaseAngleDegrees),
                                   1, positions[v + 1]),
                      positions, indices_, v + 1, faceNormals, creaseAngleDegrees)

buildCreasedVertexPNFromVerticesAndIndices(positions, indices_, creaseAngleDegrees) ==
    LET numVerts == Len(positions)
        numIndices == Len(indices_)
        numTris == numIndices \div 3
    IN  IF numVerts = 0 \/ numTris = 0
        THEN EmptyMeshPN
        ELSE CreaseVertices(
                 [vertices |-> <<>>, indices |-> [k \in 1 .. numIndices |-> 0]],
                 positions, indices_, 0,
                 [t \in 1 .. numTris |-> faceNormal(positions, indices_, t - 1)],
                 creaseAngleDegrees)

\* registered meshes are built with a crease angle of 60 degrees
buildTrianglesMeshPNFromVerticesAndIndices(positions, indices_) ==
    buildCreasedVertexPNFromVerticesAndIndices(positions, indices_, 60)

\* the index lists a caller hands over: up to MaxTris triangles of
\* TriChoices, the whole cube, and two lists whose length is no multiple of 3
RECURSIVE Flatten(_)
Flatten(tris) == IF tris = <<>> THEN <<>> ELSE Head(tris) \o Flatten(Tail(tris))

IndexLists ==
    {Flatten(ts) : ts \in UNION {[1 .. n -> TriChoices] : n \in 0 .. MaxTris}}
        \cup {CubeIndices, <<0, 2, 3, 1>>, <<5>>}

\* no icosphere is being built
SphereIdle ==
    /\ K = 0
    /\ fi = 0
    /\ gi = 0
    /\ gj = 0
    /\ grid = EmptyFn
    /\ pos = <<>>
    /\ edgePoints = EmptyFn
    /\ faceInterior = <<>>
    /\ indices = <<>>
    /\ bpc = "idle"
    /\ lastReq = NoReq
    /\ firstChain = EmptyFn

\* the application before dsSimulationLoop, holding the cube vertices and an
\* index list and a crease threshold it is going to pass
TriMeshInit ==
    /\ AppInit
    /\ SphereIdle
    /\ CapsuleIdle
    /\ DriverIdle
    /\ request \in [via : {"none"}, indices : IndexLists,
                    creaseAngleDegrees : CreaseAngles]
    /\ meshPN = EmptyMeshPN
    /\ handles = <<>>
    /\ ShadowIdle
    /\ PlatformIdle
    /\ ClipIdle

\* dsRegisterIndexedMesh -> DrawstuffApp::registerIndexedMesh for the cube
\* vertices and the index list of the request: the mesh is built, pushed on
\* the registry, and the handle the caller gets has id = size - 1
dsRegisterIndexedMesh ==
    /\ pc \in UserCtx
    /\ meshRegistry_ < MaxMeshes
    /\ meshPN' = buildTrianglesMeshPNFromVerticesAndIndices(CubeVertices,
                                                           request.indices)
    /\ meshRegistry_' = meshRegistry_ + 1
    /\ handles' = Append(handles, [id |-> (meshRegistry_ + 1) - 1])
    /\ request' = [request EXCEPT !.via = "register"]
    /\ immediateDraw' = NoDraw
    /\ UNCHANGED <<current_state, pc, settings, lists, observed, sphere, capsule, driver,
                   shadow, platform, clip>>

\* a build of the cube vertices and the index list of the request with the
\* crease threshold of the request
BuildCreased ==
    /\ meshPN' = buildCreasedVertexPNFromVerticesAndIndices(
                     CubeVertices, request.indices, request.creaseAngleDegrees)
    /\ request' = [request EXCEPT !.via = "build"]
    /\ UNCHANGED <<app, sphere, capsule, driver, handles, shadow, platform, clip>>

NextTriMesh ==
    \/ dsRegisterIndexedMesh
    \/ BuildCreased

SpecTriMesh == TriMeshInit /\ [][NextTriMesh]_vars

\* dsMeshHandle::isValid
isValid(h) == h.id # 0

\* ------------------------------------------------- properties of registered meshes
\* triangle t (1-based) of an index list
TriAt(ix, t) == <<ix[3 * t - 2], ix[3 * t - 1], ix[3 * t]>>

\* the triangles of an index list whose three indices are all below n
WellFormedTris(ix, n) ==
    SelectSeq([t \in 1 .. (Len(ix) \div 3) |-> TriAt(ix, t)],
              LAMBDA tri : tri[1] < n /\ tri[2] < n /\ tri[3] < n)

\* the corner positions of triangle t of a built mesh, "none" for an index
\* that names no vertex of the mesh
BuiltTriPositions(m, t) ==
    [c \in 1 .. 3 |->
        IF TriAt(m.indices, t)[c] < Len(m.vertices)
        THEN m.vertices[TriAt(m.indices, t)[c] + 1].pos
        ELSE "none"]

\* C14: the index list of a registered mesh holds exactly the well-formed
\* triangles of the input, in order and at their positions; a triangle with an
\* out-of-range index contributes no triangle to it
C14_MalformedSkipped ==
    (request.via = "register" /\ Len(request.indices) % 3 = 0) =>
        LET kept == WellFormedTris(request.indices, Len(CubeVertices))
        IN  /\ Len(meshPN.indices) = 3 * Len(kept)
            /\ \A t \in 1 .. Len(kept) :
                   BuiltTriPositions(meshPN, t)
                       = [c \in 1 .. 3 |-> CubeVertices[kept[t][c] + 1]]

\* C15: the creased mesh of the cube (8 vertices, 12 triangles) built with a
\* crease threshold of 0 degrees has exactly 24 vertices
C15_CubeFaceted ==
    (request.via = "build" /\ request.indices = CubeIndices
        /\ request.creaseAngleDegrees = 0)
    => Len(meshPN.vertices) = 24

C15_Witness ==
    /\ request = [via |-> "build", indices |-> CubeIndices, creaseAngleDegrees |-> 0]
    /\ Len(meshPN.vertices) = 24
    /\ Len(meshPN.indices) = 36
    /\ \A k \in 1 .. 36 : meshPN.vertices[meshPN.indices[k] + 1].pos
                              = CubeVertices[CubeIndices[k] + 1]

\* C16: every handle that dsRegisterIndexedMesh has returned is valid (its id
\* is not 0)
C16_HandlesValid ==
    \A k \in 1 .. Len(handles) : isValid(handles[k])

\* ------------------------------------------------- the shadow passes
\* light directions (Lx, Ly, 1); LIGHTX = 1 is among the first components
Lights == {<<Lx, Ly, 1>> : Lx \in {-1, 0, 1, 2}, Ly \in {-1, 0, 1}}

\* glm::mat4 as rows of columns: M[r][c]
Identity4 == <<<<1, 0, 0, 0>>, <<0, 1, 0, 0>>, <<0, 0, 1, 0>>, <<0, 0, 0, 1>>>>

\* the model matrix of a translation by t
Translate(t) == <<<<1, 0, 0, t[1]>>, <<0, 1, 0, t[2]>>, <<0, 0, 1, t[3]>>, <<0, 0, 0, 1>>>>

\* a quarter turn about the x axis: y -> z, z -> -y
RotX90 == <<<<1, 0, 0, 0>>, <<0, 0, -1, 0>>, <<0, 1, 0, 0>>, <<0, 0, 0, 1>>>>

\* product in the other order
MatMul_swapped(A, B) ==
    [r \in 1 .. 4 |-> [c \in 1 .. 4 |->
        B[r][1] * A[1][c] + B[r][2] * A[2][c] + B[r][3] * A[3][c] + B[r][4] * A[4][c]]]

\* glm::mat4 * glm::mat4
MatMul(A, B) ==
    [r \in 1 .. 4 |-> [c \in 1 .. 4 |->
        A[r][1] * B[1][c] + A[r][2] * B[2][c] + A[r][3] * B[3][c] + A[r][4] * B[4][c]]]

\* mat4 * vec4
MatVec(A, v) ==
    [r \in 1 .. 4 |-> A[r][1] * v[1] + A[r][2] * v[2] + A[r][3] * v[3] + A[r][4] * v[4]]

\* vec4(aPos, 1.0)
vec4(aPos, w) == <<aPos[1], aPos[2], aPos[3], w>>

\* the model matrices of the meshes and instances drawn
ModelMatrices ==
    {Identity4, RotX90, Translate(<<1, 0, 2>>), Translate(<<0, -1, 1>>),
     MatMul(Translate(<<0, 0, -1>>), RotX90)}

\* mesh vertices
MeshPoints == {<<x, y, z>> : x \in {0, 1}, y \in {-1, 1}, z \in {-1, 0, 1}}

\* the matrix the Shadow Projector builds for the light L = (Lx, Ly, 1):
\* P (x, y, z, 1) = (x - Lx z, y - Ly z, 0, 1)
ShadowMatrix(L) ==
    <<<<1, 0, -L[1], 0>>, <<0, 1, -L[2], 0>>, <<0, 0, 0, 0>>, <<0, 0, 0, 1>>>>

\* the application with its light direction, before initShadowProjection
ShadowInit ==
    /\ AppInit
    /\ SphereIdle
    /\ CapsuleIdle
    /\ DriverIdle
    /\ TriMeshIdle
    /\ PlatformIdle
    /\ ClipIdle
    /\ shadowLightDir_ \in Lights
    /\ shadowProject_ = <<>>
    /\ shadowVertex = NoShadowVertex

\* DrawstuffApp::initShadowProjection
initShadowProjection ==
    /\ shadowProject_ = <<>>
    /\ shadowProject_' = ShadowMatrix(shadowLightDir_)
    /\ UNCHANGED <<app, sphere, capsule, driver, trimesh, clip, platform, shadowLightDir_, shadowVertex>>

\* DrawstuffApp::drawShadowMesh for a mesh with the model matrix model, and
\* the shadow vertex shader for the vertex aPos of it
drawShadowMesh(model, aPos) ==
    /\ shadowProject_ # <<>>
    /\ IF ~use_shadows
       THEN UNCHANGED shadowVertex
       ELSE LET shadowModel == MatMul(shadowProject_, model)
            IN  shadowVertex' = [pass |-> "mesh", model |-> model, aPos |-> aPos,
                                 shadowWorld |-> MatVec(shadowModel, vec4(aPos, 1))]
    /\ UNCHANGED <<app, sphere, capsule, driver, trimesh, clip, platform, shadowLightDir_, shadowProject_>>

\* the shadow pass of the flush for an instance with the model matrix iModel:
\* uShadowModel = shadowProject_, and the instanced shadow vertex shader for
\* the vertex aPos
drawShadowInstanced(iModel, aPos) ==
    /\ shadowProject_ # <<>>
    /\ use_shadows
    /\ LET worldPos == MatVec(iModel, vec4(aPos, 1))
       IN  shadowVertex' = [pass |-> "instanced", model |-> iModel, aPos |-> aPos,
                            shadowWorld |-> MatVec(shadowProject_, worldPos)]
    /\ UNCHANGED <<app, sphere, capsule, driver, trimesh, clip, platform, shadowLightDir_, shadowProject_>>

NextShadow ==
    \/ initShadowProjection
    \/ \E model \in ModelMatrices, aPos \in MeshPoints : drawShadowMesh(model, aPos)
    \/ \E iModel \in ModelMatrices, aPos \in MeshPoints : drawShadowInstanced(iModel, aPos)

SpecShadow == ShadowInit /\ [][NextShadow]_vars

ClipPoints == {Pt(x, 0, z) : x \in {0, 1}, z \in {-1, 0, 1}}

\* clipTriToHemisphere(aL, bL, cL, top, r, outPoly) is about to be called
ClipInit ==
    /\ AppInit
    /\ SphereIdle
    /\ CapsuleIdle
    /\ DriverIdle
    /\ TriMeshIdle
    /\ ShadowIdle
    /\ PlatformIdle
    /\ clipArgs \in [aL : ClipPoints, bL : ClipPoints, cL : ClipPoints, top : BOOLEAN]
    /\ outPoly = NoPoly

\* the call of clipTriToHemisphere
callClipTri ==
    /\ outPoly = NoPoly
    /\ outPoly' = clipTriToHemisphere(clipArgs.aL, clipArgs.bL, clipArgs.cL, clipArgs.top)
    /\ UNCHANGED <<app, sphere, capsule, driver, trimesh, shadow, platform, clipArgs>>

NextClip == callClipTri

SpecClip == ClipInit /\ [][NextClip]_vars

\* the side of the plane a corner is on: 1 inside, 0 on it, -1 outside
SideOf(pLocal) == Sgn(signedPlaneZ(pLocal, clipArgs.top))

\* C28: whatever the three corners are - each strictly inside, strictly
\* outside or on the cutting plane - the polygon clipTriToHemisphere returns
\* has 0, 3 or 4 vertices
C28_ClipPolygonSize ==
    outPoly # NoPoly => Len(outPoly) \in {0, 3, 4}

\* one corner inside, one outside and one on the plane: a 4-gon
C28_Witness ==
    /\ outPoly # NoPoly
    /\ SideOf(clipArgs.aL) = 1
    /\ SideOf(clipArgs.bL) = -1
    /\ SideOf(clipArgs.cL) = 0
    /\ Len(outPoly) = 4

\* ------------------------------------------------- properties of dsStop
\* the places of user code inside dsSimulationLoop
LoopCtx == {"start_cb", "command_cb", "step_cb", "poststep_cb", "stop_cb"}

\* C18: dsStop called anywhere inside dsSimulationLoop, the step callback
\* included, does not terminate the process and leaves the loop stopping
\* (state FINISHED, so no further frame is rendered, the stop callback and
\* the graphics shutdown run and dsSimulationLoop returns)
C18_StopInsideLoop ==
    [][(dsStop /\ pc \in LoopCtx)
          => (pc' # "terminated" /\ current_state' = "FINISHED")]_vars

\* C19: dsStop called while no simulation loop is running changes no state
\* and does not terminate the process
C19_StopOutsideLoop ==
    [][(dsStop /\ pc \in {"main_before", "main_after"})
          => (pc' # "terminated"
              /\ UNCHANGED <<current_state, settings, lists, meshRegistry_>>)]_vars

\* ------------------------------------------------- properties of the frame entry
\* C20: whenever the draw callback of a frame is invoked, the current colour
\* is white and the current texture is none (0), whatever was set before
C20_FrameStartsWhiteUntextured ==
    [][(pc # "step_cb" /\ pc' = "step_cb")
          => (current_color' = "white" /\ texture_id' = 0)]_vars

C20_Witness ==
    /\ pc = "step_cb"
    /\ current_state = "DRAWING"
    /\ current_color = "white"
    /\ texture_id = 0

\* C29: whatever dsRegisterIndexedMesh is given, the mesh built for the
\* handle has every index below its vertex count and an index count that is
\* a multiple of 3
C29_RegisteredMeshWellFormed ==
    request.via = "register" =>
        /\ \A k \in 1 .. Len(meshPN.indices) : meshPN.indices[k] < Len(meshPN.vertices)
        /\ Len(meshPN.indices) % 3 = 0

\* C30: every instanced submission of a flush, lit or shadow, of a kind that
\* has quality levels uses the mesh of a built quality (1..3), whatever
\* integers dsSetSphereQuality and dsSetCapsuleQuality were given
C30_SubmissionsUseBuiltMeshes ==
    pc = "flushed" =>
        \A n \in DOMAIN submissions :
            submissions[n].kind # "box" => submissions[n].q \in BuiltQualities

\* ------------------------------------------------- properties of the platform loop
\* C21: each primitive mesh builder runs at most once for a (kind, quality)
\* in the life of the process: createPrimitiveMeshes, which runs each of them
\* once, never runs a second time, not by a second dsSimulationLoop and not
\* by dsStartGraphics during the loop
C21_MeshesBuiltOnce == builds <= 1

\* C22: when the command line holds "-texturepath" followed by a path P, the
\* simulation loads its textures from P
C22_TexturePathUsed ==
    [][\A argv \in Argvs : \A k \in 2 .. (Len(argv) - 1) :
          (/\ runSimulation(argv)
           /\ current_state = "NOT_STARTED"
           /\ argv[k] = "-texturepath"
           /\ argv[k + 1] \in {"P", "Q"}
           /\ \A j \in 2 .. Len(argv) : argv[j] = "-texturepath" => j = k)
          => prefix' = argv[k + 1]]_vars

\* C23: after dsPause the simulation is paused, whatever the pause mode was
C23_PauseAlwaysPauses == [][dsPause => pausemode' = 1]_vars

\* C25: the start callback is invoked exactly once and before any step
\* callback; a rendered frame invokes the step callback exactly once; once
\* the state is FINISHED it stays so and no step callback is invoked; the
\* stop callback is invoked exactly once, after the last step and before
\* dsSimulationLoop returns
C25_CallbackOrder ==
    /\ [](/\ startCalls <= 1
          /\ stopCalls <= 1
          /\ (stepCalls > 0 => (startCalls = 1 /\ stopCalls = 0 /\ pc # "start_cb"))
          /\ (pc \in {"step_cb", "flushed"} => stepCalls = 1)
          /\ stepCalls <= 1
          /\ (pc = "stop_cb" => (startCalls = 1 /\ stopCalls = 1))
          /\ (pc = "main_after" => (startCalls = 1 /\ stopCalls = 1)))
    /\ [][/\ (current_state = "FINISHED" => current_state' = "FINISHED")
          /\ (stepCalls' > stepCalls => current_state # "FINISHED")
          /\ (stopCalls' > stopCalls => current_state = "FINISHED")]_vars

C25_Witness ==
    /\ pc = "main_after"
    /\ startCalls = 1
    /\ stopCalls = 1
    /\ pausemode = 1

\* C26 as stated: a frame rendered while pause mode is on steps (pause = 0)
\* exactly when the last Ctrl-O / Ctrl-P processed since the previous frame
\* is a Ctrl-O; a frame rendered while pause mode is off gets pause = 0, and
\* Ctrl-O changes nothing then
C26_SingleStepOriginal ==
    [][/\ (pc = "loop" /\ pc' = "step_cb")
            => pause' = (IF pausemode # 0 /\ lastCtrl.key # "ctrl_o" THEN 1 ELSE 0)
       /\ (handleEvent("ctrl_o") /\ pausemode = 0)
            => UNCHANGED <<pausemode, singlestep>>]_vars

\* C26: a frame rendered while pause mode is on steps (pause = 0) exactly
\* when a Ctrl-O that found pause mode on was processed since the previous
\* frame with no Ctrl-P after it; a frame rendered while pause mode is off
\* gets pause = 0, and Ctrl-O changes nothing then
C26_SingleStep ==
    [][/\ (pc = "loop" /\ pc' = "step_cb")
            => pause' = (IF pausemode # 0
                            /\ ~(lastCtrl.key = "ctrl_o" /\ lastCtrl.paused # 0)
                         THEN 1 ELSE 0)
       /\ (handleEvent("ctrl_o") /\ pausemode = 0)
            => UNCHANGED <<pausemode, singlestep>>]_vars

C26_Witness ==
    /\ pc = "step_cb"
    /\ pausemode = 1
    /\ pause = 0

\* ------------------------------------------------- properties of invalid qualities
\* C24: a builder called with a quality outside its levels ends the process
\* and makes no mesh: the icosphere builder with K < 1 stops before its first
\* vertex, and the cylinder builder returns a mesh only for a quality in 1..3
C24_InvalidQualityFatal ==
    /\ K < 1 => (bpc \in {"enter", "aborted"} /\ pos = <<>>)
    /\ \A q \in CylinderQualityArgs :
          <<"cylinder", q>> \in DOMAIN meshes => q \in BuiltQualities

====
